---- MODULE Spec2Model ----
EXTENDS Integers, Sequences, FiniteSets, TLC

\* ===========================================================================
\* Keboola Component Schema Tester (component_schema_tester.py)
\*   server side : the /sync-action dispatcher (Flask handler sync_action)
\*   client side : the embedded schema-driven form engine (JavaScript)
\* ===========================================================================

\* ---------------------------------------------------------------------------
\* Bounds of the model
\* ---------------------------------------------------------------------------
MaxNameLen == 3

MaxVal == 2

\* the loads that may await their response at one time
MaxInFlight == 2

\* the largest value a watched field is given
MaxWatchVal == 1

\* the top-level properties of a schema that is laid out
MaxProps == 2

\* the largest propertyOrder of such a property
MaxOrder == 8

\* ---------------------------------------------------------------------------
\* Action names: sequences of characters
\* ---------------------------------------------------------------------------
Alphabet == {"a", "B", "-", "_"}

Names == UNION {[1..n -> Alphabet] : n \in 0..MaxNameLen}

IsUpper(c) == c \in {"A", "B"}

IsLower(c) == c \in {"a", "b"}

IsDigit(c) == c \in {"0", "1"}

Lower(c) == IF c = "A" THEN "a" ELSE IF c = "B" THEN "b" ELSE c

LowerAll(s) == [i \in 1..Len(s) |-> Lower(s[i])]

\* end of the greedy run [a-z]+ that starts at position j (j itself is lower case)
RECURSIVE LowerRunEnd(_, _)
LowerRunEnd(s, j) ==
    IF j < Len(s) /\ IsLower(s[j + 1]) THEN LowerRunEnd(s, j + 1) ELSE j

\* re.sub('(.)([A-Z][a-z]+)', r'\1_\2', name): leftmost, non-overlapping
RECURSIVE SubWordBoundary(_, _)
SubWordBoundary(s, i) ==
    IF i > Len(s) THEN <<>>
    ELSE IF i + 2 <= Len(s) /\ IsUpper(s[i + 1]) /\ IsLower(s[i + 2])
         THEN LET e == LowerRunEnd(s, i + 2)
              IN  <<s[i], "_">> \o SubSeq(s, i + 1, e) \o SubWordBoundary(s, e + 1)
         ELSE <<s[i]>> \o SubWordBoundary(s, i + 1)

\* re.sub('([a-z0-9])([A-Z])', r'\1_\2', s1): leftmost, non-overlapping
RECURSIVE SubHump(_, _)
SubHump(s, i) ==
    IF i > Len(s) THEN <<>>
    ELSE IF i + 1 <= Len(s) /\ (IsLower(s[i]) \/ IsDigit(s[i])) /\ IsUpper(s[i + 1])
         THEN <<s[i], "_", s[i + 1]>> \o SubHump(s, i + 2)
         ELSE <<s[i]>> \o SubHump(s, i + 1)

\* mutant: the second substitution (the hump rule) is left out
camel_to_snake_NoHump(name) == LowerAll(SubWordBoundary(name, 1))

camel_to_snake(name) == LowerAll(SubHump(SubWordBoundary(name, 1), 1))

\* action.replace('-', '_')
HyphenToUnderscore(name) ==
    [i \in 1..Len(name) |-> IF name[i] = "-" THEN "_" ELSE name[i]]

\* mutant: the last two variants change places
possible_names_Swapped(action) ==
    <<action, HyphenToUnderscore(action), camel_to_snake(action)>>

possible_names(action) ==
    <<action, camel_to_snake(action), HyphenToUnderscore(action)>>

\* ---------------------------------------------------------------------------
\* The backend unit: the attributes of a Component instance
\* ---------------------------------------------------------------------------
AttrNames ==
    { <<"a", "B">>, <<"a", "_", "b">>, <<"a", "-", "b">>, <<"a", "_", "B">> }

AttrKinds == {"absent", "method", "data"}

Units == [AttrNames -> AttrKinds]

hasattr(comp, name) == name \in DOMAIN comp /\ comp[name] # "absent"

callable(comp, name) == hasattr(comp, name) /\ comp[name] = "method"

\* for name in possible_names: if hasattr(comp, name): method = getattr(...); break
RECURSIVE FirstExisting(_, _, _)
FirstExisting(comp, names, i) ==
    IF i > Len(names) THEN 0
    ELSE IF hasattr(comp, names[i]) THEN i
    ELSE FirstExisting(comp, names, i + 1)

\* ---------------------------------------------------------------------------
\* Parameter sets and the persisted config file (data/config.json)
\* ---------------------------------------------------------------------------
\* a parameter set maps the paths of its leaves to their values; a top-level
\* key is a path of length one, and 0 is the value a field has by default
Vals == 0..MaxVal

FormPaths == { <<"x">>, <<"y">> }

ParamMaps == UNION {[S -> Vals] : S \in SUBSET FormPaths}

EmptyParams == [k \in {} |-> 0]

\* a JSON document on disk: the top-level keys it has and their values
NoFile == [exists |-> FALSE, keys |-> {}, parameters |-> EmptyParams, storage |-> "none"]

OldFile(P) ==
    [exists |-> TRUE, keys |-> {"parameters", "storage"}, parameters |-> P, storage |-> "s0"]

\* mutant: the result is wrapped into a status envelope
ResultResponse_Wrapped(result) ==
    [http |-> 200, status |-> "success", text |-> "none", action |-> <<>>, tried |-> <<>>,
     traceback |-> FALSE, body |-> result]

\* mutant: the file is not written before the request is answered
write_config_NotYet(old, parameters) == old

\* mutant: the new parameters are merged into what the file held
write_config_Merge(old, parameters) ==
    [old EXCEPT !.exists = TRUE, !.keys = @ \cup {"parameters"}, !.parameters = parameters]

\* config = {'parameters': parameters}; open(config_path, 'w'); json.dump(config, f)
\* old is the content the file had: opening with 'w' discards it
write_config(old, parameters) ==
    [exists |-> TRUE, keys |-> {"parameters"}, parameters |-> parameters, storage |-> "none"]

\* ---------------------------------------------------------------------------
\* Paths and the file system seen by the dispatcher
\* ---------------------------------------------------------------------------
NoPath == <<>>

BadTypePath == <<"#badtype">>

Dirs ==
    { <<"main">>, <<"main", "component_config">>,
      <<"alt">>, <<"alt", "component_config">>, <<"plain">> }

Roots == { <<"main">>, <<"alt">>, <<"plain">> }

project_root == <<"main">>

isdir(p) == p \in Dirs

basename(p) == IF Len(p) = 0 THEN "" ELSE p[Len(p)]

dirname(p) == IF Len(p) = 0 THEN p ELSE SubSeq(p, 1, Len(p) - 1)

\* lines 323-335 of sync_action
ResolveRoot(component_path) ==
    IF component_path # NoPath /\ isdir(component_path)
    THEN IF basename(component_path) = "component_config"
         THEN dirname(component_path)
         ELSE IF isdir(component_path \o <<"component_config">>)
              THEN component_path
              ELSE component_path
    ELSE project_root

\* what <root>/src holds
SrcStates == {"ok", "no_src", "no_entry", "import_error", "import_fault"}

EmptyUnit == [n \in AttrNames |-> "absent"]

HasEntryFile(d) == d.src \in {"ok", "import_error", "import_fault"}

\* ---------------------------------------------------------------------------
\* Responses of /sync-action
\* ---------------------------------------------------------------------------
NoResponse ==
    [http |-> 0, status |-> "none", text |-> "none", action |-> <<>>, tried |-> <<>>,
     traceback |-> FALSE, body |-> "none"]

\* return jsonify(result)
ResultResponse(result) ==
    [NoResponse EXCEPT !.http = 200, !.body = result]

\* lines 343-346, 353-356
NotFoundResponse(what) ==
    [NoResponse EXCEPT !.http = 500, !.status = "error", !.text = what]

\* lines 366-369
ImportErrorResponse ==
    [NoResponse EXCEPT !.http = 500, !.status = "error", !.text = "Could not import Component"]

\* lines 396-399
UnknownActionResponse(action, tried) ==
    [NoResponse EXCEPT !.http = 400, !.status = "error", !.text = "Unknown action",
                       !.action = action, !.tried = tried]

\* mutant: the traceback is left out of the failure
FaultResponse_NoTrace ==
    [NoResponse EXCEPT !.http = 500, !.status = "error", !.text = "str(e)"]

\* lines 405-414
FaultResponse ==
    [NoResponse EXCEPT !.http = 500, !.status = "error", !.text = "str(e)",
                       !.traceback = TRUE]

Results == {"doc", "doc_status_success", "doc_status_error"}

\* ---------------------------------------------------------------------------
\* State
\* ---------------------------------------------------------------------------
VARIABLES
    disk,            \* per project root: state of src/component.py and the unit it defines
    configFile,      \* per project root: content of data/config.json
    config_json_path,\* the global set at startup: the config path if the file existed
    sysPath,         \* sys.path entries added for src directories, first searched first
    sysModules,      \* sys.modules['component']: the imported unit, if any
    req,             \* per request slot: the /sync-action request being handled
    schema,          \* originalComponentSchema / originalRowSchema
    editor,          \* componentEditor / rowEditor: created, ready, set up, current value
    editorOutput,    \* text of #component-output / #row-output
    combinedOutput,  \* text of #combined-output
    prefill,         \* the page-load config fetch and what splitAndFillConfig did with it
    lastEvent,       \* the handler that ran last
    hidden,          \* per editor: the fields whose container has display 'none'
    depChecked,      \* per editor: the fields whose initial dependency check has run
    watchDebounceTimers, \* timer key -> the pending debounce timer and whose callback it runs
    autoloadTimers,  \* per editor: async field -> time left of its pending autoload timer
    loads,           \* the loadOptions calls awaiting their response, in start order
    disabled,        \* per editor: the async fields whose select is disabled
    options,         \* per editor: async field -> the options a load has put in its select
    burst,           \* per editor: the run of watched-field changes since its last watch reload
    resolved,        \* history: the load that resolved last, where loads are observed
    loadControls,    \* per editor: async field -> the number of load buttons beside it
    button,          \* per editor: button field -> the state of its action button
    actionCalls,     \* the executeSyncAction calls awaiting their response, in start order
    report,          \* the alert executeSyncAction showed last, and for which outcome
    field,           \* a schema property as the schema file declares it
    processed,       \* what preprocessSchema made of that property
    documents,       \* the property as a document: the original and each normalized form
    layoutSchema,    \* the top-level properties of a schema, in property order
    groups,          \* what detectFieldGroups returned for them
    container,       \* the children of the editor's object container
    loaded,          \* loaded_component_schema, loaded_row_schema, loaded_component_name
    schemaDir,       \* per component_config folder: what it holds on disk
    schemaReply,     \* the last answer of /api/load-schemas or /api/schemas
    uploaded         \* history: the last complete pair that was uploaded

serverVars == <<disk, configFile, config_json_path, sysPath, sysModules, req>>

formVars == <<schema, editor, editorOutput, combinedOutput, prefill, lastEvent>>

formState == <<schema, editor, editorOutput, combinedOutput, prefill>>

depVars == <<hidden, depChecked>>

asyncVars == <<watchDebounceTimers, autoloadTimers, loads, disabled, options, burst,
              resolved, loadControls>>

buttonVars == <<button, actionCalls, report>>

prepVars == <<field, processed, documents>>

layoutVars == <<layoutSchema, groups, container>>

storeVars == <<loaded, schemaDir, schemaReply, uploaded>>

extraVars == <<prepVars, layoutVars, storeVars>>

\* the state that only the handlers of one feature touch
restVars == <<buttonVars, extraVars>>

vars == <<disk, configFile, config_json_path, sysPath, sysModules, req,
          schema, editor, editorOutput, combinedOutput, prefill, lastEvent,
          hidden, depChecked,
          watchDebounceTimers, autoloadTimers, loads, disabled, options, burst,
          resolved, loadControls,
          button, actionCalls, report, field, processed, documents, layoutSchema, groups, container,
          loaded, schemaDir, schemaReply, uploaded>>

Slots == {1, 2}

NoModule == [cached |-> FALSE, attrs |-> EmptyUnit]

IdleRequest ==
    [pc |-> "idle", hasAction |-> FALSE, action |-> <<>>, parameters |-> EmptyParams,
     componentPath |-> NoPath, root |-> project_root, response |-> NoResponse,
     propagated |-> FALSE, stage |-> "none", raised |-> "none", prior |-> NoFile, loaded |-> FALSE, comp |-> EmptyUnit,
     invoked |-> <<>>, args |-> "none", returned |-> "none", configRead |-> NoFile,
     lastWrite |-> EmptyParams]

\* ---------------------------------------------------------------------------
\* sync_action, first part (lines 317-338): read the request, resolve the root,
\* persist the parameters
\* ---------------------------------------------------------------------------
Accept(s, hasAction, action, parameters, component_path, fault) ==
    /\ req[s].pc \in {"idle", "done"}
    /\ LET r0 == [IdleRequest EXCEPT !.hasAction = hasAction, !.action = action,
                                     !.parameters = parameters,
                                     !.componentPath = component_path]
       IN  IF fault = "body"
           THEN \* request.json raised
                /\ req' = [req EXCEPT ![s] = [r0 EXCEPT !.pc = "done", !.stage = "body",
                                                        !.raised = "Exception",
                                                        !.parameters = EmptyParams,
                                                        !.response = FaultResponse]]
                /\ UNCHANGED configFile
           ELSE IF component_path = BadTypePath
           THEN \* os.path.isdir raised on a value that is no path
                /\ req' = [req EXCEPT ![s] = [r0 EXCEPT !.pc = "done", !.stage = "root",
                                                        !.raised = "Exception",
                                                        !.response = FaultResponse]]
                /\ UNCHANGED configFile
           ELSE LET root == ResolveRoot(component_path)
                IN  IF fault = "write"
                    THEN \* makedirs/open raised
                         /\ req' = [req EXCEPT ![s] = [r0 EXCEPT !.pc = "done",
                                                                 !.root = root,
                                                                 !.stage = "persist",
                                                                 !.raised = "Exception",
                                                                 !.response = FaultResponse]]
                         /\ UNCHANGED configFile
                    ELSE /\ configFile' = [configFile EXCEPT
                                             ![root] = write_config(@, parameters)]
                         \* lastWrite (history): the parameters written last to
                         \* the config of a request's root since its own persist
                         /\ req' = [t \in Slots |->
                                      IF t = s
                                      THEN [r0 EXCEPT !.pc = "persisted",
                                                      !.root = root,
                                                      !.prior = configFile[root],
                                                      !.lastWrite = parameters]
                                      ELSE IF req[t].pc = "persisted" /\ req[t].root = root
                                      THEN [req[t] EXCEPT !.lastWrite = parameters]
                                      ELSE req[t]]
    /\ UNCHANGED <<disk, config_json_path, sysPath, sysModules>>
    /\ UNCHANGED <<formVars, depVars, asyncVars, restVars>>

\* sys.path.insert(0, src_path) when src_path is not in sys.path (lines 360-361)
PathAfterInsert(path, root) ==
    IF \E i \in 1..Len(path) : path[i] = root THEN path ELSE <<root>> \o path

\* the first sys.path entry that holds a component.py
RECURSIVE FirstWithEntry(_, _, _)
FirstWithEntry(d, path, i) ==
    IF i > Len(path) THEN 0
    ELSE IF HasEntryFile(d[path[i]]) THEN i
    ELSE FirstWithEntry(d, path, i + 1)

\* lines 373-399: the name chosen, 0 when there is none to call
ResolveMethod(comp, action) ==
    LET names == possible_names(action)
        i     == FirstExisting(comp, names, 1)
    IN  IF i # 0 /\ comp[names[i]] = "method" THEN i ELSE 0

\* mutant: the callable is handed the parameters of its own request
ConfigAtInvoke_Own(files, r) == write_config(NoFile, r.parameters)

\* method() at line 402: the callable reads data/config.json of the root as it
\* is at that moment
ConfigAtInvoke(files, r) == files[r.root]

\* ---------------------------------------------------------------------------
\* sync_action, second part (lines 340-414): load the unit, resolve the method,
\* invoke it, answer
\* ---------------------------------------------------------------------------
Finish(s, ctor, outcome, result) ==
    /\ req[s].pc = "persisted"
    /\ LET r    == req[s]
           root == r.root
           path == PathAfterInsert(sysPath, root)
           src  == IF sysModules.cached THEN "ok"
                   ELSE disk[path[FirstWithEntry(disk, path, 1)]].src
           comp == IF sysModules.cached THEN sysModules.attrs
                   ELSE disk[path[FirstWithEntry(disk, path, 1)]].attrs
           done(rec) == req' = [req EXCEPT ![s] = [rec EXCEPT !.pc = "done"]]
       IN  IF disk[root].src = "no_src"
           THEN /\ done([r EXCEPT !.stage = "load",
                                  !.response = NotFoundResponse("src/ directory not found")])
                /\ UNCHANGED <<sysPath, sysModules>>
           ELSE IF disk[root].src = "no_entry"
           THEN /\ done([r EXCEPT !.stage = "load",
                                  !.response = NotFoundResponse("component.py not found")])
                /\ UNCHANGED <<sysPath, sysModules>>
           ELSE /\ sysPath' = path
                /\ IF src = "import_error"
                   THEN /\ done([r EXCEPT !.stage = "import", !.raised = "ImportError",
                                          !.response = ImportErrorResponse])
                        /\ UNCHANGED sysModules
                   ELSE IF src = "import_fault"
                   THEN /\ done([r EXCEPT !.stage = "import", !.raised = "Exception",
                                          !.response = FaultResponse])
                        /\ UNCHANGED sysModules
                   ELSE /\ sysModules' = [cached |-> TRUE, attrs |-> comp]
                        /\ LET rl == [r EXCEPT !.loaded = TRUE, !.comp = comp]
                           IN  IF ctor = "raise"
                               THEN done([rl EXCEPT !.stage = "construct",
                                                    !.raised = "Exception",
                                                    !.response = FaultResponse])
                               ELSE IF ctor = "exit"
                               THEN \* SystemExit is no Exception: not caught at line 405
                                    done([rl EXCEPT !.stage = "construct",
                                                    !.raised = "SystemExit",
                                                    !.propagated = TRUE])
                               ELSE IF ~r.hasAction
                               THEN \* camel_to_snake(None) raises TypeError
                                    done([rl EXCEPT !.stage = "resolve",
                                                    !.raised = "Exception",
                                                    !.response = FaultResponse])
                               ELSE LET names == possible_names(r.action)
                                        i     == ResolveMethod(comp, r.action)
                                    IN  IF i = 0
                                        THEN done([rl EXCEPT !.stage = "resolve",
                                                 !.response =
                                                     UnknownActionResponse(r.action, names)])
                                        ELSE LET ri == [rl EXCEPT !.stage = "invoke",
                                                            !.invoked = <<names[i]>>,
                                                            !.args = <<>>,
                                                            !.configRead = ConfigAtInvoke(configFile, r)]
                                             IN  IF outcome = "raise"
                                                 THEN done([ri EXCEPT !.raised = "Exception",
                                                                      !.response = FaultResponse])
                                                 ELSE IF outcome = "exit"
                                                 THEN done([ri EXCEPT !.raised = "SystemExit",
                                                                      !.propagated = TRUE])
                                                 ELSE done([ri EXCEPT !.returned = result,
                                                       !.response = ResultResponse(result)])
    /\ UNCHANGED <<disk, configFile, config_json_path>>
    /\ UNCHANGED <<formVars, depVars, asyncVars, restVars>>

Outcomes == {"return", "raise", "exit"}

CtorOutcomes == {"ok", "raise", "exit"}

\* ---------------------------------------------------------------------------
\* GET /api/config and the startup globals
\* ---------------------------------------------------------------------------
NoConfigPath == [set |-> FALSE, root |-> project_root]

\* path if os.path.exists(path) else None, evaluated once at startup
find_config_json(files, root) ==
    IF files[root].exists THEN [set |-> TRUE, root |-> root] ELSE NoConfigPath

\* lines 286-299, without a path query
get_config(files, path) ==
    IF path.set /\ files[path.root].exists
    THEN IF "parameters" \in files[path.root].keys
         THEN files[path.root].parameters
         ELSE EmptyParams
    ELSE EmptyParams

\* ---------------------------------------------------------------------------
\* The two editors of the page
\* ---------------------------------------------------------------------------
Editors == {"component", "row"}

TopKey(p) == p[1]

TopKeys(paths) == {TopKey(p) : p \in paths}

\* an empty dependencies / async table
NoEntries == [p \in {} |-> 0]

\* a schema: the leaves it declares, the top-level keys it requires, per field
\* the options.dependencies and options.async it carries, and the fields that
\* are action buttons
PlainSchema(props, required) ==
    [props |-> props, required |-> required, deps |-> NoEntries, async |-> NoEntries,
     buttons |-> {}]

\* a schema with the select field f, loaded by a sync action, and the field w
AsyncSchema(autoload, watch, required) ==
    [props |-> {<<"f">>, <<"w">>}, required |-> {}, deps |-> NoEntries,
     async |-> [f \in {<<"f">>} |->
                   [autoload |-> autoload, watch |-> watch, required |-> required]],
     buttons |-> {}]

\* Object.keys(schema.properties || {})
DeclaredKeys(sch) == TopKeys(sch.props)

\* use_default_values: a new editor shows every declared field with its default
DefaultValue(sch) == [p \in sch.props |-> 0]

NoEditor == [exists |-> FALSE, ready |-> FALSE, setup |-> FALSE, value |-> EmptyParams]

NoOutput == [written |-> FALSE, value |-> EmptyParams]

\* mutant: the component values win on a key collision
MergeParams_ComponentWins(componentValues, rowValues) ==
    LET kept == {p \in DOMAIN rowValues :
                     \A q \in DOMAIN componentValues : TopKey(q) # TopKey(p)}
    IN  [p \in DOMAIN componentValues \cup kept |->
            IF p \in DOMAIN componentValues THEN componentValues[p] ELSE rowValues[p]]

\* {...componentValues, ...rowValues}: a top-level key of the row replaces the
\* component's value of that key, subtree and all
MergeParams(componentValues, rowValues) ==
    LET kept == {p \in DOMAIN componentValues :
                     \A q \in DOMAIN rowValues : TopKey(q) # TopKey(p)}
    IN  [p \in DOMAIN rowValues \cup kept |->
            IF p \in DOMAIN rowValues THEN rowValues[p] ELSE componentValues[p]]

\* mutant: the fields whose container is hidden are left out of the output
UpdatedEditorOutput_VisibleOnly(eds, outs, e) ==
    IF ~eds[e].exists \/ ~eds[e].ready THEN outs[e]
    ELSE [written |-> TRUE,
          value |-> [p \in DOMAIN eds[e].value \ hidden[e] |-> eds[e].value[p]]]

\* updateComponentOutput / updateRowOutput (lines 1723-1753)
UpdatedEditorOutput(eds, outs, e) ==
    IF ~eds[e].exists \/ ~eds[e].ready THEN outs[e]
    ELSE [written |-> TRUE, value |-> eds[e].value]

\* updateCombinedOutput (lines 1755-1767)
UpdatedCombinedOutput(eds, out) ==
    IF \/ ~eds["component"].exists \/ ~eds["component"].ready
       \/ ~eds["row"].exists \/ ~eds["row"].ready
    THEN out
    ELSE [written |-> TRUE,
          value |-> MergeParams(eds["component"].value, eds["row"].value)]

\* mutant: a key the component schema declares is not given to the row editor
SplitParams_Exclusive(config, keys, otherKeys) ==
    LET mine == {p \in DOMAIN config : TopKey(p) \in keys /\ TopKey(p) \notin otherKeys}
    IN  [p \in mine |-> config[p]]

\* mutant: every persisted key goes to the editor, declared or not
SplitParams_Undeclared(config, keys, otherKeys) == config

\* lines 928-935: the persisted keys that the schema of one editor declares;
\* otherKeys are the keys the other schema declares, which play no part
SplitParams(config, keys, otherKeys) ==
    LET mine == {p \in DOMAIN config : TopKey(p) \in keys}
    IN  [p \in mine |-> config[p]]

\* JSONEditor.setValue on the root object: the given fields take the given
\* values; a declared field that is not given is reset to its default when it
\* is required and leaves the value otherwise
SetValue(sch, value) ==
    LET keep == {p \in sch.props : p \in DOMAIN value \/ TopKey(p) \in sch.required}
    IN  [p \in keep |-> IF p \in DOMAIN value THEN value[p] ELSE 0]

NoPrefill ==
    [state |-> "pending", config |-> EmptyParams,
     componentParams |-> EmptyParams, rowParams |-> EmptyParams]

\* values[depField] (line 1194): depField is the key as written in the
\* dependencies map, looked up among the top-level properties of the value; a
\* dotted path names no top-level property and reads as undefined
ValueAtKey(value, depField) ==
    IF Len(depField) = 1 /\ depField \in DOMAIN value
    THEN [defined |-> TRUE, v |-> value[depField]]
    ELSE [defined |-> FALSE, v |-> 0]

\* checkDependencies (lines 1187-1207): shouldShow
checkDependencies(sch, value, f) ==
    \A d \in DOMAIN sch.deps[f] :
        ValueAtKey(value, d) = [defined |-> TRUE, v |-> sch.deps[f][d]]

\* the watchers registered by setupDependencies (lines 1210-1217) for the
\* changed paths: each re-runs checkDependencies of its field
AfterWatchers(sch, ed, hid, changed) ==
    IF ~ed.setup THEN hid
    ELSE LET fired == {f \in DOMAIN sch.deps : DOMAIN sch.deps[f] \cap changed # {}}
         IN  (hid \ fired) \cup {f \in fired : ~checkDependencies(sch, ed.value, f)}

ChangedPaths(old, new) ==
    {p \in DOMAIN old \cup DOMAIN new :
        p \notin DOMAIN old \/ p \notin DOMAIN new \/ old[p] # new[p]}

\* the delay of the debounce timer (line 1128) and of the autoload timer
\* (line 1141), in milliseconds
DebounceDelay == 1000

AutoloadDelay == 500

\* time advances in steps of the shorter delay
Quantum == AutoloadDelay

\* setupWatchListeners (lines 1231-1248) walks the nested objects too, but
\* setupAsyncField looks the dotted path of a nested field up among the
\* properties of its parent (line 1003) and returns when it finds nothing
\* (line 1004): the fields that are set up are the top-level ones
asyncFieldsSetUp(sch) == {f \in DOMAIN sch.async : Len(f) = 1}

\* line 1111: watchFieldRaw.replace(/^parameters\./, '')
watchFieldPath(raw) ==
    IF Len(raw) > 1 /\ raw[1] = "parameters" THEN Tail(raw) ELSE raw

\* lines 1010, 1108-1112: the paths an async field watches, as the editor knows them
watchFields(async) == {watchFieldPath(raw) : raw \in async.watch}

\* lines 1010-1011: autoload is true or a non-empty array of fields to watch
Autoloads(async) == async.autoload \/ async.watch # {}

\* line 1119: `${fieldPath}_${watchField}`, the same for both editors
timerKey(e, fieldPath, watchField) == <<fieldPath, watchField>>

\* the watch callbacks registered by setupAsyncField (lines 1117-1129) for the
\* changed paths: each replaces the timer under its key by a new one that runs
\* the loadOptions of its own editor
AfterWatchCallbacks(sch, ed, e, timers, changed) ==
    IF ~ed.setup THEN timers
    ELSE LET pairs == {fw \in asyncFieldsSetUp(sch) \X changed :
                          fw[2] \in watchFields(sch.async[fw[1]])}
             keys  == {timerKey(e, fw[1], fw[2]) : fw \in pairs}
         IN  [k \in DOMAIN timers \cup keys |->
                 IF k \in keys
                 THEN [remaining |-> DebounceDelay, owner |-> e,
                       field |-> (CHOOSE fw \in pairs : timerKey(e, fw[1], fw[2]) = k)[1]]
                 ELSE timers[k]]

\* history: no change of a watched field is waiting for its reload, and every
\* watch reload so far started one delay after the last change
NoBurst == [open |-> FALSE, elapsed |-> 0, exact |-> TRUE]

\* history: a watched field of the editor changed
BurstAfterChange(sch, ed, b, changed) ==
    IF ed.setup /\ \E f \in asyncFieldsSetUp(sch) : watchFields(sch.async[f]) \cap changed # {}
    THEN [b EXCEPT !.open = TRUE, !.elapsed = 0]
    ELSE b

\* mutant: a load sends the values of its own editor only
SentParameters_OwnOnly(eds, e) == eds[e].value

\* callSyncAction (lines 969-972): the values of the component editor, when it
\* is ready, overlaid with the values of the editor that loads
SentParameters(eds, e) ==
    MergeParams(IF eds["component"].exists /\ eds["component"].ready
                THEN eds["component"].value ELSE EmptyParams,
                eds[e].value)

\* loadOptions up to its await (lines 1024-1036)
StartedLoad(eds, e, f) ==
    [editor |-> e, field |-> f, sent |-> SentParameters(eds, e), seen |-> "alone"]

\* history, where loads are observed: the pending loads after the i-th has
\* resolved; a load of the same field that started earlier has been overtaken,
\* one that started later has overlapped with it
LoadsAfter(lds, i, observed) ==
    [j \in 1..(Len(lds) - 1) |->
        LET k == IF j < i THEN j ELSE j + 1
            same == lds[k].editor = lds[i].editor /\ lds[k].field = lds[i].field
        IN  IF ~observed \/ ~same THEN lds[k]
            ELSE IF k < i THEN [lds[k] EXCEPT !.seen = "overtaken"]
            ELSE IF lds[k].seen = "alone" THEN [lds[k] EXCEPT !.seen = "overlapped"]
            ELSE lds[k]]

\* what a load can come back with
LoadOutcomes == {"options", "empty", "malformed", "http_error", "transport_failure"}

\* the outcomes that end in the catch block (lines 1093-1103)
Throws(outcome) == outcome \in {"malformed", "http_error", "transport_failure"}

ReturnedValues == <<"q", "p">>

OtherValues == <<"r">>

\* the array a response carries (lines 1039-1046)
ReturnedArray(outcome) ==
    IF outcome = "options" THEN ReturnedValues
    ELSE IF outcome = "other_options" THEN OtherValues
    ELSE <<>>

\* history: no load has been observed to resolve
NoneResolved == [editor |-> "none", field |-> <<>>, outcome |-> "none", seen |-> "alone"]

\* mutant: only a failed load gives the select back
DisabledAfterLoad_StuckOnSuccess(outcome) == ~Throws(outcome)

\* mutant: the catch block leaves the select disabled
DisabledAfterLoad_StuckOnFailure(outcome) == Throws(outcome)

\* selectElement.disabled after loadOptions (lines 1088-1091 and 1098-1102)
DisabledAfterLoad(outcome) == IF Throws(outcome) THEN FALSE ELSE FALSE

\* lines 1051-1085: a non-empty returned array replaces the options of the
\* select, after an empty option when the field is not required
OptionsAfterLoad(old, f, required, outcome) ==
    IF Throws(outcome) \/ Len(ReturnedArray(outcome)) = 0 THEN old
    ELSE LET new == (IF required THEN <<>> ELSE <<"">>) \o ReturnedArray(outcome)
         IN  [g \in DOMAIN old \cup {f} |-> IF g = f THEN new ELSE old[g]]

\* an action button as setupActionButtons creates it (lines 1284-1305)
IdleButton == [disabled |-> FALSE, opacity |-> "1", label |-> "idle"]

\* executeSyncAction marks the button busy (lines 1324-1326)
BusyButton == [disabled |-> TRUE, opacity |-> "0.6", label |-> "busy"]

\* mutant: a button of the component editor sends the row values too
ActionParameters_BothEditors(eds, e) ==
    MergeParams(eds["component"].value, eds["row"].value)

\* executeSyncAction (lines 1329-1331): {...componentConfig, ...rowConfig},
\* where rowConfig is the value of the editor the button belongs to
ActionParameters(eds, e) == MergeParams(eds["component"].value, eds[e].value)

\* callSyncAction (lines 969-972) on the parameters of executeSyncAction
SentActionParameters(eds, e) ==
    MergeParams(IF eds["component"].exists /\ eds["component"].ready
                THEN eds["component"].value ELSE EmptyParams,
                ActionParameters(eds, e))

\* what a dispatch can come back with: a result whose status is "success",
\* absent, falsy (an empty string, null, 0) or another one, without or with a
\* message, a response that is not ok, or no response
ActionOutcomes == {"success", "no_status", "falsy_status", "error_status",
                   "error_with_message", "http_error", "transport_failure"}

\* callSyncAction throws (lines 986-989 and 993-996)
ActionThrows(outcome) == outcome \in {"http_error", "transport_failure"}

\* the button after executeSyncAction has run to its end. With a result the
\* button kept in the try block is restored (lines 1343-1345). After a throw
\* the catch block looks the button up as event.target (line 1347): the catch
\* block runs in a later task than the click handler, where the click is no
\* longer the current event of the window, so the lookup itself throws and
\* lines 1348-1350 are not reached
ButtonAfterAction(b, outcome) == IF ActionThrows(outcome) THEN b ELSE IdleButton

NoReport == [of |-> "none", kind |-> "none", text |-> "none"]

\* the alert of executeSyncAction once the call has come back. A result whose
\* status is 'success' or falsy is shown whole as a success (lines 1337-1338),
\* any other as a failure, by its message alone when it has one and whole
\* otherwise (line 1340). After a throw the catch block stops at event.target
\* (line 1347), before the alert of line 1352
ReportOf(outcome) ==
    IF ActionThrows(outcome) THEN [of |-> outcome, kind |-> "none", text |-> "none"]
    ELSE IF outcome \in {"success", "no_status", "falsy_status"}
    THEN [of |-> outcome, kind |-> "success", text |-> "result"]
    ELSE IF outcome = "error_with_message"
    THEN [of |-> outcome, kind |-> "failure", text |-> "message"]
    ELSE [of |-> outcome, kind |-> "failure", text |-> "result"]

\* ---------------------------------------------------------------------------
\* preprocessSchema on one property
\* ---------------------------------------------------------------------------
TestConnectionFormat ==
    <<"t", "e", "s", "t", "-", "c", "o", "n", "n", "e", "c", "t", "i", "o", "n">>

TestConnectionAction ==
    <<"t", "e", "s", "t", "C", "o", "n", "n", "e", "c", "t", "i", "o", "n">>

Unknown == <<"u", "n", "k", "n", "o", "w", "n">>

SelectFormat == <<"s", "e", "l", "e", "c", "t">>

\* [a-z], over the letters that occur
IsLowerLetter(c) == c \in {"a", "b", "c", "e", "i", "n", "o", "s", "t"}

ToUpperCase(c) ==
    CASE c = "a" -> "A" [] c = "b" -> "B" [] c = "c" -> "C" [] c = "e" -> "E"
      [] c = "i" -> "I" [] c = "n" -> "N" [] c = "o" -> "O" [] c = "s" -> "S"
      [] c = "t" -> "T" [] OTHER -> c

\* format.replace(/-([a-z])/g, (g) => g[1].toUpperCase()) (line 1423)
RECURSIVE FormatToAction(_, _)
FormatToAction(s, i) ==
    IF i > Len(s) THEN <<>>
    ELSE IF s[i] = "-" /\ i + 1 <= Len(s) /\ IsLowerLetter(s[i + 1])
         THEN <<ToUpperCase(s[i + 1])>> \o FormatToAction(s, i + 2)
         ELSE <<s[i]>> \o FormatToAction(s, i + 1)

NotProcessed ==
    [type |-> "none", isButton |-> FALSE, action |-> <<>>, label |-> "", hidden |-> FALSE,
     hasAsync |-> FALSE, uniqueItems |-> FALSE]

\* a property that preprocessSchema leaves as it is
Untouched(prop) == [NotProcessed EXCEPT !.type = prop.type]

\* lines 1407-1444 for a top-level button and lines 1475-1504 for a button in
\* a top-level object; an absent or empty string is the empty sequence
NormalizedButton(prop, topLevel) ==
    LET fromAsync == prop.asyncAction # <<>>
        action == IF fromAsync THEN prop.asyncAction
                  ELSE IF prop.format # <<>> THEN FormatToAction(prop.format, 1)
                  ELSE Unknown
        titled == IF prop.title # "" THEN prop.title ELSE "Button"
        label  == IF fromAsync
                  THEN (IF prop.asyncLabel # "" THEN prop.asyncLabel ELSE titled)
                  ELSE IF topLevel /\ prop.format # <<>> /\ action = TestConnectionAction
                  THEN "Test Connection"
                  ELSE titled
    IN  [type |-> "string", isButton |-> TRUE, action |-> action, label |-> label,
         hidden |-> TRUE, hasAsync |-> FALSE, uniqueItems |-> FALSE]

\* lines 1446-1458, reached for the top-level properties only: an async select
\* gets options._hasAsync, a select-formatted array uniqueItems
FlaggedSelect(prop) ==
    [Untouched(prop) EXCEPT
        !.hasAsync = (prop.format = SelectFormat /\ prop.asyncAction # <<>>),
        !.uniqueItems = (prop.type = "array" /\ prop.format = SelectFormat)]

\* preprocessSchema (lines 1400-1513) on one property: buttons are normalized
\* at the top level and one level below it, selects are flagged at the top
\* level, and nothing below the properties of a top-level object is visited
preprocessField(prop) ==
    IF prop.type = "button" /\ prop.depth \in {"top", "nested"}
    THEN NormalizedButton(prop, prop.depth = "top")
    ELSE IF prop.depth = "top" THEN FlaggedSelect(prop)
    ELSE Untouched(prop)

\* a property as a document: the keys of the schema file (type, format,
\* options.async, title) and the keys preprocessSchema writes (options._isButton,
\* _action, _label, _format, inputAttributes, options._hasAsync, uniqueItems);
\* options._format is absent, present with the value undefined, or set
RawDocument(prop) ==
    [type |-> prop.type, depth |-> prop.depth, format |-> prop.format,
     asyncAction |-> prop.asyncAction, asyncLabel |-> prop.asyncLabel, title |-> prop.title,
     isButton |-> FALSE, action |-> <<>>, label |-> "", hidden |-> FALSE,
     hasAsync |-> FALSE, uniqueItems |-> FALSE,
     storedFormat |-> <<>>, storedFormatKey |-> "absent"]

\* the keys of a document that preprocessField reads
DeclaredPart(doc) ==
    [type |-> doc.type, depth |-> doc.depth, format |-> doc.format,
     asyncAction |-> doc.asyncAction, asyncLabel |-> doc.asyncLabel, title |-> doc.title]

\* JSON.parse(JSON.stringify(schema)) (line 1401): a copy of the document,
\* without the keys whose value is undefined
JsonClone(doc) ==
    [doc EXCEPT !.storedFormatKey = IF @ = "undefined" THEN "absent" ELSE @]

\* lines 1404-1510 on the copy: a button is replaced by a new string property
\* that keeps the title, has options._format: prop.format (undefined when the
\* button has no format) and no format or options.async of its own; any other
\* property keeps its keys and gains the flags
normalizeProperty(doc) ==
    LET made == preprocessField(DeclaredPart(doc))
    IN  IF made.isButton
        THEN [type |-> made.type, depth |-> doc.depth, format |-> <<>>,
              asyncAction |-> <<>>, asyncLabel |-> "", title |-> doc.title,
              isButton |-> TRUE, action |-> made.action, label |-> made.label,
              hidden |-> made.hidden, hasAsync |-> FALSE, uniqueItems |-> FALSE,
              storedFormat |-> doc.format,
              storedFormatKey |-> IF doc.format = <<>> THEN "undefined" ELSE "set"]
        ELSE [doc EXCEPT !.hasAsync = @ \/ made.hasAsync,
                         !.uniqueItems = @ \/ made.uniqueItems]

\* preprocessSchema without the deep clone: the caller's document is the one
\* that is rewritten
preprocessSchema_InPlace(doc) ==
    [schema |-> normalizeProperty(doc), processed |-> normalizeProperty(doc)]

\* preprocessSchema (lines 1400-1513): the argument as it is after the call
\* and the document returned
preprocessSchema(doc) ==
    [schema |-> doc, processed |-> normalizeProperty(JsonClone(doc))]

NoDocuments == [original |-> RawDocument([type |-> "string", depth |-> "top", format |-> <<>>,
                                          asyncAction |-> <<>>, asyncLabel |-> "", title |-> ""]),
                passes |-> <<>>]

PrepIdle ==
    /\ field = [type |-> "string", depth |-> "top", format |-> <<>>,
                asyncAction |-> <<>>, asyncLabel |-> "", title |-> ""]
    /\ processed = NotProcessed
    /\ documents = NoDocuments

\* ---------------------------------------------------------------------------
\* detectFieldGroups and organizeFieldsIntoSections
\* ---------------------------------------------------------------------------
\* a property: its own 'x-kbc-group' key, the 'x-kbc-group' key of its options
\* (both "" when absent) and its propertyOrder (<<>> when undefined); the key
\* of a property is its position in the schema
NoGroups == [g \in {} |-> <<>>]

\* mutant: the propertyOrder is looked at before the group tag
GroupOf_OrderFirst(prop) ==
    LET order == IF prop.order = <<>> THEN 0 ELSE prop.order[1]
    IN  IF order >= 1 /\ order <= 4 THEN "Connection"
        ELSE IF order >= 5 /\ order <= 7 THEN "Data Selection"
        ELSE IF order >= 8 THEN "Destination"
        ELSE IF prop.tag # "" THEN prop.tag
        ELSE "Configuration"

\* lines 1370-1388: the group name of one property
GroupOf(prop) ==
    IF prop.tag # "" THEN prop.tag
    ELSE IF prop.order # <<>> /\ prop.order[1] >= 1 /\ prop.order[1] <= 4 THEN "Connection"
    ELSE IF prop.order # <<>> /\ prop.order[1] >= 5 /\ prop.order[1] <= 7
         THEN "Data Selection"
    ELSE IF prop.order # <<>> /\ prop.order[1] >= 8 THEN "Destination"
    ELSE "Configuration"

\* detectFieldGroups (lines 1362-1397): the loop over the keys from key i on
RECURSIVE detectFieldGroups(_, _, _)
detectFieldGroups(props, i, acc) ==
    IF i > Len(props) THEN acc
    ELSE LET g == GroupOf(props[i])
         IN  detectFieldGroups(props, i + 1,
                 [h \in DOMAIN acc \cup {g} |->
                     IF h = g THEN (IF g \in DOMAIN acc THEN Append(acc[g], i) ELSE <<i>>)
                     ELSE acc[h]])

\* line 1525
groupOrder == <<"Connection", "Data Selection", "Destination", "Configuration">>

\* the rendered rows of the fields, one per property, in property order
RowsOf(props) == [i \in 1..Len(props) |-> [section |-> "", rows |-> <<i>>]]

\* mutant: the sections are built for a single group too
Reorganizes_Always(grps) == TRUE

\* line 1521: with one group or none the function returns at once
Reorganizes(grps) == Cardinality(DOMAIN grps) > 1

\* lines 1523-1588: one section per group of groupOrder that has fields, holding
\* the rows of its fields; the container is emptied and given the sections
RECURSIVE SectionsFrom(_, _)
SectionsFrom(grps, j) ==
    IF j > Len(groupOrder) THEN <<>>
    ELSE (IF groupOrder[j] \in DOMAIN grps
          THEN <<[section |-> groupOrder[j], rows |-> grps[groupOrder[j]]]>>
          ELSE <<>>) \o SectionsFrom(grps, j + 1)

\* organizeFieldsIntoSections (lines 1516-1591) on the container
organizeFieldsIntoSections(children, grps) ==
    IF Reorganizes(grps) THEN SectionsFrom(grps, 1) ELSE children

LayoutIdle ==
    /\ layoutSchema = <<>>
    /\ groups = NoGroups
    /\ container = [organized |-> FALSE, children |-> <<>>]

\* ---------------------------------------------------------------------------
\* The schema endpoints
\* ---------------------------------------------------------------------------
\* a schema document: absent from the body (None), the empty object, or one of
\* two non-empty documents
SchemaDocs == {"None", "{}", "A", "B"}

\* the truth value Python gives a document
Truthy(doc) == doc \notin {"None", "{}"}

\* the folder found at startup and the folder a path query can name
ConfigFolders == {"auto", "manual"}

\* lines 160-163
NothingLoaded == [component |-> "None", row |-> "None", name |-> "None"]

NoSchemaReply == [of |-> "none", http |-> "none", component |-> "None", row |-> "None"]

NoPair == [component |-> "None", row |-> "None"]

\* load_schemas (lines 208-211): the three globals are assigned from the body
\* before the pair is looked at
StoredByUpload(old, c, r, n) == [component |-> c, row |-> r, name |-> n]

\* get_schemas (lines 240-272) on the globals and on what the folder it is
\* asked for holds: nothing, a folder without readable schema files, or the
\* two schema files of one component
get_schemas(store, dir) ==
    IF Truthy(store.component) /\ Truthy(store.row)
    THEN [of |-> "get", http |-> "ok", component |-> store.component, row |-> store.row]
    ELSE IF dir = "missing"
    THEN [of |-> "get", http |-> "not_found", component |-> "None", row |-> "None"]
    ELSE IF dir = "unreadable"
    THEN [of |-> "get", http |-> "error", component |-> "None", row |-> "None"]
    ELSE [of |-> "get", http |-> "ok", component |-> dir, row |-> dir]

StoreIdle ==
    /\ loaded = NothingLoaded
    /\ schemaDir = [d \in ConfigFolders |-> "missing"]
    /\ schemaReply = NoSchemaReply
    /\ uploaded = NoPair

ExtrasIdle == PrepIdle /\ LayoutIdle /\ StoreIdle

\* POST /api/load-schemas (lines 191-223) with a JSON object as body;
\* componentName defaults to 'Unknown'
LoadSchemas(c, r, n) ==
    /\ loaded' = StoredByUpload(loaded, c, r, n)
    /\ schemaReply' = [NoSchemaReply EXCEPT
                           !.of = "upload",
                           !.http = IF Truthy(c) /\ Truthy(r) THEN "ok" ELSE "bad_request"]
    /\ uploaded' = IF Truthy(c) /\ Truthy(r) THEN [component |-> c, row |-> r]
                   ELSE uploaded
    /\ UNCHANGED schemaDir
    /\ UNCHANGED <<serverVars, formVars, depVars, asyncVars, buttonVars, prepVars, layoutVars>>

\* POST /api/load-schemas with a body that is no JSON object: data.get raises
\* before anything is assigned (lines 207-208, 220-221)
LoadSchemasFaulty ==
    /\ schemaReply' = [NoSchemaReply EXCEPT !.of = "upload", !.http = "error"]
    /\ UNCHANGED <<loaded, schemaDir, uploaded>>
    /\ UNCHANGED <<serverVars, formVars, depVars, asyncVars, buttonVars, prepVars, layoutVars>>

\* GET /api/schemas (lines 226-272), without a path query or with one
GetSchemas(folder) ==
    /\ schemaReply' = get_schemas(loaded, schemaDir[folder])
    /\ UNCHANGED <<loaded, schemaDir, uploaded>>
    /\ UNCHANGED <<serverVars, formVars, depVars, asyncVars, buttonVars, prepVars, layoutVars>>

\* the setup timeout of an editor calls organizeFieldsIntoSections
\* (lines 1637, 1678)
OrganizeFields ==
    /\ ~container.organized
    /\ LET grps == detectFieldGroups(layoutSchema, 1, NoGroups)
       IN  /\ groups' = grps
           /\ container' = [organized |-> TRUE,
                            children |-> organizeFieldsIntoSections(container.children, grps)]
    /\ UNCHANGED <<serverVars, formVars, depVars, asyncVars, buttonVars, prepVars>>
    /\ UNCHANGED <<layoutSchema, storeVars>>

\* initializeEditors preprocesses the schema (lines 1598-1687)
PreprocessSchema ==
    /\ processed = NotProcessed
    /\ processed' = preprocessField(field)
    /\ UNCHANGED <<serverVars, formVars, depVars, asyncVars, buttonVars, field, layoutVars>>
    /\ UNCHANGED <<documents, storeVars>>

\* the number of times a schema is put through preprocessSchema
MaxPasses == 2

\* preprocessSchema is called on the stored original (lines 1600-1605) and
\* then on what it returned
NormalizeSchema ==
    /\ Len(documents.passes) < MaxPasses
    /\ LET first == documents.passes = <<>>
           input == IF first THEN documents.original
                    ELSE documents.passes[Len(documents.passes)]
           call  == preprocessSchema(input)
       IN  documents' = [original |-> IF first THEN call.schema ELSE documents.original,
                         passes |-> IF first THEN <<call.processed>>
                                    ELSE Append([documents.passes EXCEPT
                                                     ![Len(documents.passes)] = call.schema],
                                                call.processed)]
    /\ UNCHANGED <<serverVars, formVars, depVars, asyncVars, buttonVars, field, processed>>
    /\ UNCHANGED <<layoutVars, storeVars>>

\* nothing hidden, no timer, no load
ControlsIdle ==
    /\ hidden = [e \in Editors |-> {}]
    /\ depChecked = [e \in Editors |-> {}]
    /\ watchDebounceTimers = NoEntries
    /\ autoloadTimers = [e \in Editors |-> NoEntries]
    /\ loads = <<>>
    /\ disabled = [e \in Editors |-> {}]
    /\ options = [e \in Editors |-> NoEntries]
    /\ burst = [e \in Editors |-> NoBurst]
    /\ resolved = NoneResolved
    /\ loadControls = [e \in Editors |-> NoEntries]
    /\ button = [e \in Editors |-> NoEntries]
    /\ actionCalls = <<>>
    /\ report = NoReport

FormIdle ==
    /\ schema = [e \in Editors |-> PlainSchema({}, {})]
    /\ editor = [e \in Editors |-> NoEditor]
    /\ editorOutput = [e \in Editors |-> NoOutput]
    /\ combinedOutput = NoOutput
    /\ prefill = NoPrefill
    /\ lastEvent = "none"
    /\ ControlsIdle

\* initializeEditors (lines 1598-1687): both editors are created from the
\* schemas; each becomes ready later
InitializeEditors ==
    /\ \A e \in Editors : ~editor[e].exists
    /\ editor' = [e \in Editors |->
                     [exists |-> TRUE, ready |-> FALSE, setup |-> FALSE,
                      value |-> DefaultValue(schema[e])]]
    /\ lastEvent' = "other"
    /\ UNCHANGED <<schema, editorOutput, combinedOutput, prefill>>
    /\ UNCHANGED <<serverVars, depVars, asyncVars, restVars>>

\* the 'ready' event of an editor (lines 1629-1633, 1669-1673): the change
\* handler is registered
EditorReady(e) ==
    /\ editor[e].exists
    /\ ~editor[e].ready
    /\ editor' = [editor EXCEPT ![e].ready = TRUE]
    /\ lastEvent' = "other"
    /\ UNCHANGED <<schema, editorOutput, combinedOutput, prefill>>
    /\ UNCHANGED <<serverVars, depVars, asyncVars, restVars>>

\* the timeout set in the 'ready' handler (lines 1634-1644, 1674-1685): the
\* component editor refreshes its own output, the row editor its own and the
\* combined one; the dependency and watch callbacks are registered and every
\* autoloading async field gets its autoload timer (lines 1136-1142) and every
\* button field its action button (lines 1284-1305)
SetupTimeout(e) ==
    /\ editor[e].ready
    /\ ~editor[e].setup
    /\ editor' = [editor EXCEPT ![e].setup = TRUE]
    /\ editorOutput' = [editorOutput EXCEPT ![e] = UpdatedEditorOutput(editor, editorOutput, e)]
    /\ combinedOutput' = IF e = "row" THEN UpdatedCombinedOutput(editor, combinedOutput)
                         ELSE combinedOutput
    /\ autoloadTimers' = [autoloadTimers EXCEPT ![e] =
                              [f \in {g \in asyncFieldsSetUp(schema[e]) :
                                         Autoloads(schema[e].async[g])}
                                  |-> AutoloadDelay]]
    /\ loadControls' = [loadControls EXCEPT ![e] =
                            [f \in asyncFieldsSetUp(schema[e]) |->
                                IF f \in DOMAIN @ /\ @[f] > 0 THEN @[f] ELSE 1]]
    /\ lastEvent' = "other"
    /\ UNCHANGED <<schema, prefill>>
    /\ button' = [button EXCEPT ![e] = [f \in schema[e].buttons |-> IdleButton]]
    /\ UNCHANGED <<serverVars, depVars>>
    /\ UNCHANGED <<watchDebounceTimers, loads, disabled, options, burst, resolved>>
    /\ UNCHANGED <<actionCalls, report, extraVars>>

\* the timeout set by setupDependencies for a field with dependencies
\* (line 1220): the initial check
InitialCheck(e, f) ==
    /\ editor[e].setup
    /\ f \in DOMAIN schema[e].deps
    /\ f \notin depChecked[e]
    /\ hidden' = [hidden EXCEPT ![e] =
                      IF checkDependencies(schema[e], editor[e].value, f)
                      THEN @ \ {f} ELSE @ \cup {f}]
    /\ depChecked' = [depChecked EXCEPT ![e] = @ \cup {f}]
    /\ lastEvent' = "other"
    /\ UNCHANGED <<schema, editor, editorOutput, combinedOutput, prefill>>
    /\ UNCHANGED <<serverVars, asyncVars, restVars>>

\* loadOptions is called for field f of editor e: the select is disabled and
\* the request leaves with the values read at this moment (lines 1024-1036)
BeginLoad(e, f, trigger) ==
    /\ Len(loads) < MaxInFlight
    /\ loads' = Append(loads, StartedLoad(editor, e, f))
    /\ disabled' = [disabled EXCEPT ![e] = @ \cup {f}]
    /\ lastEvent' = trigger

\* a debounce timer fires (lines 1125-1128)
FireWatchTimer(k) ==
    /\ k \in DOMAIN watchDebounceTimers
    /\ watchDebounceTimers[k].remaining = 0
    /\ LET t == watchDebounceTimers[k]
           b == burst[t.owner]
       IN  /\ BeginLoad(t.owner, t.field, "watch")
           /\ burst' = [burst EXCEPT ![t.owner] =
                            [open |-> FALSE, elapsed |-> 0,
                             exact |-> b.exact /\ b.open /\ b.elapsed = DebounceDelay]]
    /\ watchDebounceTimers' =
           [j \in DOMAIN watchDebounceTimers \ {k} |-> watchDebounceTimers[j]]
    /\ UNCHANGED <<autoloadTimers, options, resolved, loadControls>>
    /\ UNCHANGED <<serverVars, formState, depVars, restVars>>

\* an autoload timer fires (lines 1138-1141)
FireAutoloadTimer(e, f) ==
    /\ f \in DOMAIN autoloadTimers[e]
    /\ autoloadTimers[e][f] = 0
    /\ BeginLoad(e, f, "autoload")
    /\ autoloadTimers' = [autoloadTimers EXCEPT ![e] =
                              [g \in DOMAIN @ \ {f} |-> @[g]]]
    /\ UNCHANGED <<watchDebounceTimers, options, burst, resolved, loadControls>>
    /\ UNCHANGED <<serverVars, formState, depVars, restVars>>

\* the user clicks the load button of an async field (lines 1156-1159)
ManualLoad(e, f) ==
    /\ f \in DOMAIN loadControls[e]
    /\ loadControls[e][f] > 0
    /\ BeginLoad(e, f, "manual")
    /\ UNCHANGED <<watchDebounceTimers, autoloadTimers, options, burst, resolved, loadControls>>
    /\ UNCHANGED <<serverVars, formState, depVars, restVars>>

\* the response of the i-th pending load arrives, or its request fails;
\* loadOptions runs to its end (lines 1038-1103)
FinishLoad(i, outcome, observed) ==
    /\ i \in 1..Len(loads)
    /\ LET l == loads[i]
       IN  /\ resolved' = IF observed
                          THEN [editor |-> l.editor, field |-> l.field, outcome |-> outcome,
                                seen |-> IF l.seen = "alone"
                                            /\ \E j \in 1..Len(loads) :
                                                   /\ j # i
                                                   /\ loads[j].editor = l.editor
                                                   /\ loads[j].field = l.field
                                         THEN "overlapped" ELSE l.seen]
                          ELSE resolved
           /\ options' = [options EXCEPT ![l.editor] =
                   OptionsAfterLoad(@, l.field, schema[l.editor].async[l.field].required, outcome)]
           /\ disabled' = [disabled EXCEPT ![l.editor] =
                   IF DisabledAfterLoad(outcome) THEN @ \cup {l.field} ELSE @ \ {l.field}]
    /\ loads' = LoadsAfter(loads, i, observed)
    /\ lastEvent' = IF Throws(outcome) THEN "load_failed" ELSE "load_done"
    /\ UNCHANGED <<watchDebounceTimers, autoloadTimers, burst, loadControls>>
    /\ UNCHANGED <<serverVars, formState, depVars, restVars>>

\* the user activates the action button of field f of editor e
\* (lines 1298-1301, 1322-1334). componentEditor.getValue() throws while the
\* component editor is not ready; that catch runs inside the click handler,
\* where event.target is the button
ActivateButton(e, f) ==
    /\ f \in DOMAIN button[e]
    /\ ~button[e][f].disabled
    /\ IF editor["component"].ready
       THEN /\ button' = [button EXCEPT ![e][f] = BusyButton]
            /\ actionCalls' = Append(actionCalls,
                   [editor |-> e, field |-> f, sent |-> SentActionParameters(editor, e)])
            /\ lastEvent' = "activate"
            /\ UNCHANGED report
       ELSE /\ button' = [button EXCEPT ![e][f] = IdleButton]
            /\ lastEvent' = "action_failed"
            /\ report' = [of |-> "not_sent", kind |-> "error", text |-> "error_message"]
            /\ UNCHANGED actionCalls
    /\ UNCHANGED <<serverVars, formState, depVars, asyncVars, extraVars>>

\* the response of the i-th pending action call arrives, or its request
\* fails; executeSyncAction runs to its end (lines 1336-1354)
FinishActionCall(i, outcome) ==
    /\ i \in 1..Len(actionCalls)
    /\ LET c == actionCalls[i]
       IN  button' = [button EXCEPT ![c.editor][c.field] = ButtonAfterAction(@, outcome)]
    /\ actionCalls' = [j \in 1..(Len(actionCalls) - 1) |->
                          IF j < i THEN actionCalls[j] ELSE actionCalls[j + 1]]
    /\ report' = ReportOf(outcome)
    /\ lastEvent' = IF ActionThrows(outcome) THEN "action_failed" ELSE "action_done"
    /\ UNCHANGED <<serverVars, formState, depVars, asyncVars, extraVars>>

\* time passes by one quantum; a timer that is due fires first
Tick ==
    /\ \/ DOMAIN watchDebounceTimers # {}
       \/ \E e \in Editors : DOMAIN autoloadTimers[e] # {}
       \/ \E e \in Editors : burst[e].open /\ burst[e].elapsed <= DebounceDelay
    /\ \A k \in DOMAIN watchDebounceTimers : watchDebounceTimers[k].remaining > 0
    /\ \A e \in Editors : \A f \in DOMAIN autoloadTimers[e] : autoloadTimers[e][f] > 0
    /\ watchDebounceTimers' =
           [k \in DOMAIN watchDebounceTimers |->
               [watchDebounceTimers[k] EXCEPT !.remaining = @ - Quantum]]
    /\ autoloadTimers' =
           [e \in Editors |-> [f \in DOMAIN autoloadTimers[e] |-> autoloadTimers[e][f] - Quantum]]
    /\ burst' = [e \in Editors |->
                     IF burst[e].open /\ burst[e].elapsed <= DebounceDelay
                     THEN [burst[e] EXCEPT !.elapsed = @ + Quantum]
                     ELSE burst[e]]
    /\ lastEvent' = "other"
    /\ UNCHANGED <<loads, disabled, options, resolved, loadControls>>
    /\ UNCHANGED <<serverVars, formState, depVars, restVars>>

\* the user edits field p of editor e; the 'change' handler runs
\* (lines 1630-1633, 1670-1673)
ChangeEvent(e, p, v) ==
    /\ editor[e].ready
    /\ p \in DOMAIN editor[e].value
    /\ editor[e].value[p] # v
    /\ LET eds == [editor EXCEPT ![e].value[p] = v]
       IN  /\ editor' = eds
           /\ editorOutput' = [editorOutput EXCEPT
                                  ![e] = UpdatedEditorOutput(eds, editorOutput, e)]
           /\ combinedOutput' = UpdatedCombinedOutput(eds, combinedOutput)
           /\ hidden' = [hidden EXCEPT ![e] = AfterWatchers(schema[e], eds[e], @, {p})]
           /\ watchDebounceTimers' =
                  AfterWatchCallbacks(schema[e], eds[e], e, watchDebounceTimers, {p})
           /\ burst' = [burst EXCEPT ![e] = BurstAfterChange(schema[e], eds[e], @, {p})]
    /\ lastEvent' = "change"
    /\ UNCHANGED <<schema, prefill, depChecked>>
    /\ UNCHANGED <<serverVars, restVars>>
    /\ UNCHANGED <<autoloadTimers, loads, disabled, options, resolved, loadControls>>

\* loadConfig (lines 893-908) with splitAndFillConfig (lines 911-946): the
\* config is fetched and, when it has a key, split over the two editors; an
\* editor that is given values fires its 'change' handler, whether or not the
\* values differ from what it held
LoadConfig ==
    /\ prefill.state = "pending"
    /\ LET config    == get_config(configFile, config_json_path)
           compKeys  == DeclaredKeys(schema["component"])
           rowKeys   == DeclaredKeys(schema["row"])
           compPar   == SplitParams(config, compKeys, rowKeys)
           rowPar    == SplitParams(config, rowKeys, compKeys)
           setComp   == DOMAIN compPar # {}
           setRow    == DOMAIN rowPar # {}
           \* setValue throws on an editor that is not ready
           compFails == setComp /\ ~editor["component"].ready
           rowFails  == ~compFails /\ setRow /\ ~editor["row"].ready
           eds1      == IF setComp /\ ~compFails
                        THEN [editor EXCEPT !["component"].value =
                                 SetValue(schema["component"], compPar)]
                        ELSE editor
           eds2      == IF setRow /\ ~compFails /\ ~rowFails
                        THEN [eds1 EXCEPT !["row"].value = SetValue(schema["row"], rowPar)]
                        ELSE eds1
           outs1     == IF setComp /\ ~compFails
                        THEN [editorOutput EXCEPT
                                 !["component"] =
                                     UpdatedEditorOutput(eds2, editorOutput, "component")]
                        ELSE editorOutput
           outs2     == IF setRow /\ ~compFails /\ ~rowFails
                        THEN [outs1 EXCEPT !["row"] = UpdatedEditorOutput(eds2, outs1, "row")]
                        ELSE outs1
       IN  IF DOMAIN config = {}
           THEN /\ prefill' = [NoPrefill EXCEPT !.state = "empty", !.config = config]
                /\ UNCHANGED <<editor, editorOutput, combinedOutput, hidden>>
                /\ UNCHANGED <<watchDebounceTimers, burst>>
           ELSE IF \E e \in Editors : ~editor[e].exists
           THEN /\ prefill' = [NoPrefill EXCEPT !.state = "skipped", !.config = config]
                /\ UNCHANGED <<editor, editorOutput, combinedOutput, hidden>>
                /\ UNCHANGED <<watchDebounceTimers, burst>>
           ELSE /\ prefill' = [state |-> IF compFails \/ rowFails THEN "failed" ELSE "applied",
                               config |-> config,
                               componentParams |-> compPar, rowParams |-> rowPar]
                /\ editor' = eds2
                /\ editorOutput' = outs2
                /\ combinedOutput' = IF ~compFails /\ (setComp \/ (setRow /\ ~rowFails))
                                     THEN UpdatedCombinedOutput(eds2, combinedOutput)
                                     ELSE combinedOutput
                /\ hidden' = [e \in Editors |->
                                  AfterWatchers(schema[e], eds2[e], hidden[e],
                                                ChangedPaths(editor[e].value, eds2[e].value))]
                /\ watchDebounceTimers' =
                       AfterWatchCallbacks(schema["row"], eds2["row"], "row",
                           AfterWatchCallbacks(schema["component"], eds2["component"],
                               "component", watchDebounceTimers,
                               ChangedPaths(editor["component"].value, eds2["component"].value)),
                           ChangedPaths(editor["row"].value, eds2["row"].value))
                /\ burst' = [e \in Editors |->
                                 BurstAfterChange(schema[e], eds2[e], burst[e],
                                                  ChangedPaths(editor[e].value, eds2[e].value))]
    /\ lastEvent' = "loadConfig"
    /\ UNCHANGED <<schema, depChecked>>
    /\ UNCHANGED <<serverVars, restVars>>
    /\ UNCHANGED <<autoloadTimers, loads, disabled, options, resolved, loadControls>>

ServerIdle ==
    /\ disk = [r \in Roots |-> [src |-> "no_src", attrs |-> EmptyUnit]]
    /\ sysPath = <<project_root>>
    /\ sysModules = NoModule
    /\ req = [s \in Slots |-> IdleRequest]

\* ---------------------------------------------------------------------------
\* The form: any pair of schemas over FormPaths, any persisted parameters
\* ---------------------------------------------------------------------------
OptionalSchemas == {PlainSchema(props, {}) : props \in SUBSET FormPaths}

RequiredSchemas == {PlainSchema(props, TopKeys(props)) : props \in SUBSET FormPaths}

PersistedMaps == UNION {[S -> Vals \ {0}] : S \in SUBSET FormPaths}

InitForm ==
    /\ ServerIdle
    /\ \E f \in {NoFile} \cup {write_config(NoFile, P) : P \in PersistedMaps} :
           /\ configFile = [r \in Roots |-> IF r = project_root THEN f ELSE NoFile]
           /\ config_json_path = find_config_json(configFile, project_root)
    /\ \E c \in OptionalSchemas \cup RequiredSchemas, r \in OptionalSchemas :
           /\ <<"y">> \in c.props => <<"x">> \in c.props
           /\ <<"x">> \in r.props => <<"y">> \in r.props
           /\ schema = [e \in Editors |-> IF e = "component" THEN c ELSE r]
    /\ editor = [e \in Editors |-> NoEditor]
    /\ editorOutput = [e \in Editors |-> NoOutput]
    /\ combinedOutput = NoOutput
    /\ prefill = NoPrefill
    /\ lastEvent = "none"
    /\ ControlsIdle
    /\ ExtrasIdle

EditorBecomesReady == \E e \in Editors : EditorReady(e)

EditorSetup == \E e \in Editors : SetupTimeout(e)

UserEdit == \E e \in Editors, p \in FormPaths, v \in Vals : ChangeEvent(e, p, v)

NextForm == InitializeEditors \/ EditorBecomesReady \/ EditorSetup \/ UserEdit \/ LoadConfig

SpecForm == InitForm /\ [][NextForm]_vars

\* ---------------------------------------------------------------------------
\* Page load: the schema response creates the editors, each editor fires
\* 'ready' and its setup timeout, and the config load set for 500 ms after
\* DOMContentLoaded (line 1935) gets its response, in any order; each of them
\* happens in the end
\* ---------------------------------------------------------------------------
NextPageLoad == InitializeEditors \/ EditorBecomesReady \/ EditorSetup \/ LoadConfig

PageLoadFairness ==
    /\ WF_vars(InitializeEditors)
    /\ WF_vars(EditorBecomesReady)
    /\ WF_vars(EditorSetup)
    /\ WF_vars(LoadConfig)

SpecPageLoad == InitForm /\ [][NextPageLoad]_vars /\ PageLoadFairness

\* ---------------------------------------------------------------------------
\* Conditional fields: a row schema whose field f depends on the top-level
\* field m, on the nested field o.m, or on both
\* ---------------------------------------------------------------------------
WatchablePaths == { <<"m">>, <<"o", "m">> }

DependencyMaps == UNION {[S -> Vals] : S \in SUBSET WatchablePaths \ {{}}}

DepsSchema(dependencies) ==
    [props |-> WatchablePaths \cup {<<"f">>}, required |-> {},
     deps |-> [f \in {<<"f">>} |-> dependencies], async |-> NoEntries, buttons |-> {}]

InitDeps ==
    /\ ServerIdle
    /\ configFile = [r \in Roots |-> NoFile]
    /\ config_json_path = find_config_json(configFile, project_root)
    /\ \E d \in DependencyMaps :
           schema = [e \in Editors |-> IF e = "row" THEN DepsSchema(d)
                                       ELSE PlainSchema({}, {})]
    /\ editor = [e \in Editors |-> NoEditor]
    /\ editorOutput = [e \in Editors |-> NoOutput]
    /\ combinedOutput = NoOutput
    /\ prefill = NoPrefill
    /\ lastEvent = "none"
    /\ ControlsIdle
    /\ ExtrasIdle

InitialDependencyCheck == \E e \in Editors : InitialCheck(e, <<"f">>)

WatchedFieldEdit == \E e \in Editors, p \in WatchablePaths, v \in Vals : ChangeEvent(e, p, v)

NextDeps ==
    \/ InitializeEditors
    \/ EditorBecomesReady
    \/ EditorSetup
    \/ InitialDependencyCheck
    \/ WatchedFieldEdit

SpecDeps == InitDeps /\ [][NextDeps]_vars

\* ---------------------------------------------------------------------------
\* Conditional fields whose own value is edited while they are shown
\* ---------------------------------------------------------------------------
DependentFieldEdit ==
    \E e \in Editors, v \in Vals :
        /\ <<"f">> \notin hidden[e]
        /\ ChangeEvent(e, <<"f">>, v)

NextHide ==
    \/ InitializeEditors
    \/ EditorBecomesReady
    \/ EditorSetup
    \/ InitialDependencyCheck
    \/ WatchedFieldEdit
    \/ DependentFieldEdit

SpecHide == InitDeps /\ [][NextHide]_vars

\* ---------------------------------------------------------------------------
\* Async selects: the component schema has the select f reloaded on changes of
\* w; the row schema has a select f too, reloaded on changes of its own w,
\* loaded at mount only, or loaded by its button only
\* ---------------------------------------------------------------------------
InitAsync ==
    /\ ServerIdle
    /\ configFile = [r \in Roots |-> NoFile]
    /\ config_json_path = find_config_json(configFile, project_root)
    /\ \E r \in {AsyncSchema(FALSE, {<<"w">>}, TRUE), AsyncSchema(TRUE, {}, FALSE),
                  AsyncSchema(FALSE, {}, FALSE)} :
           schema = [e \in Editors |-> IF e = "row" THEN r
                                       ELSE AsyncSchema(FALSE, {<<"parameters", "w">>}, FALSE)]
    /\ editor = [e \in Editors |-> NoEditor]
    /\ editorOutput = [e \in Editors |-> NoOutput]
    /\ combinedOutput = NoOutput
    /\ prefill = NoPrefill
    /\ lastEvent = "none"
    /\ ControlsIdle
    /\ ExtrasIdle

WatchedEdit == \E e \in Editors, v \in 0..MaxWatchVal : ChangeEvent(e, <<"w">>, v)

WatchTimerFires == \E k \in DOMAIN watchDebounceTimers : FireWatchTimer(k)

AutoloadTimerFires == \E e \in Editors : FireAutoloadTimer(e, <<"f">>)

LoadButtonClick == \E e \in Editors : ManualLoad(e, <<"f">>)

LoadFinishes == \E i \in 1..MaxInFlight, o \in LoadOutcomes : FinishLoad(i, o, FALSE)

NextAsync ==
    \/ InitializeEditors
    \/ EditorBecomesReady
    \/ EditorSetup
    \/ WatchedEdit
    \/ Tick
    \/ WatchTimerFires
    \/ AutoloadTimerFires
    \/ LoadButtonClick
    \/ LoadFinishes

SpecAsync == InitAsync /\ [][NextAsync]_vars

\* ---------------------------------------------------------------------------
\* Action buttons: each schema has a button b; both declare x, the row also y
\* ---------------------------------------------------------------------------
ButtonSchema(props) ==
    [props |-> props \cup {<<"b">>}, required |-> {}, deps |-> NoEntries,
     async |-> NoEntries, buttons |-> {<<"b">>}]

InitButtons ==
    /\ ServerIdle
    /\ configFile = [r \in Roots |-> NoFile]
    /\ config_json_path = find_config_json(configFile, project_root)
    /\ schema = [e \in Editors |-> IF e = "row" THEN ButtonSchema(FormPaths)
                                    ELSE ButtonSchema({<<"x">>})]
    /\ editor = [e \in Editors |-> NoEditor]
    /\ editorOutput = [e \in Editors |-> NoOutput]
    /\ combinedOutput = NoOutput
    /\ prefill = NoPrefill
    /\ lastEvent = "none"
    /\ ControlsIdle
    /\ ExtrasIdle

ButtonClick == \E e \in Editors : ActivateButton(e, <<"b">>)

ActionCompletes == \E i \in DOMAIN actionCalls, o \in ActionOutcomes : FinishActionCall(i, o)

NextButtons ==
    \/ InitializeEditors
    \/ EditorBecomesReady
    \/ EditorSetup
    \/ UserEdit
    \/ ButtonClick
    \/ ActionCompletes

SpecButtons == InitButtons /\ [][NextButtons]_vars

\* ---------------------------------------------------------------------------
\* Schema preprocessing: every property with a format up to MaxNameLen or the
\* format test-connection, at the top level, in an object and deeper
\* ---------------------------------------------------------------------------
SchemaFields ==
    [type : {"button", "string", "array"}, depth : {"top", "nested", "deeper"},
     format : Names \cup {TestConnectionFormat, SelectFormat},
     asyncAction : {<<>>, <<"a", "B">>}, asyncLabel : {"", "Run"},
     title : {"", "Title"}]

InitPreprocess ==
    /\ ServerIdle
    /\ configFile = [r \in Roots |-> NoFile]
    /\ config_json_path = find_config_json(configFile, project_root)
    /\ FormIdle
    /\ field \in SchemaFields
    /\ processed = NotProcessed
    /\ documents = NoDocuments
    /\ LayoutIdle
    /\ StoreIdle

NextPreprocess == PreprocessSchema

SpecPreprocess == InitPreprocess /\ [][NextPreprocess]_vars

\* ---------------------------------------------------------------------------
\* The normalizer applied twice to every such property
\* ---------------------------------------------------------------------------
InitNormalize ==
    /\ ServerIdle
    /\ configFile = [r \in Roots |-> NoFile]
    /\ config_json_path = find_config_json(configFile, project_root)
    /\ FormIdle
    /\ field \in SchemaFields
    /\ processed = NotProcessed
    /\ documents = [original |-> RawDocument(field), passes |-> <<>>]
    /\ LayoutIdle
    /\ StoreIdle

NextNormalize == NormalizeSchema

SpecNormalize == InitNormalize /\ [][NextNormalize]_vars

\* ---------------------------------------------------------------------------
\* Field groups: every schema of up to MaxProps properties, each with or
\* without a group tag of its own, a group tag in its options, a propertyOrder
\* ---------------------------------------------------------------------------
LayoutProps ==
    [tag : {"", "Extra"}, optionsTag : {"", "Extra"},
     order : {<<>>} \cup {<<n>> : n \in 0..MaxOrder}]

InitLayout ==
    /\ ServerIdle
    /\ configFile = [r \in Roots |-> NoFile]
    /\ config_json_path = find_config_json(configFile, project_root)
    /\ FormIdle
    /\ PrepIdle
    /\ layoutSchema \in UNION {[1..n -> LayoutProps] : n \in 0..MaxProps}
    /\ groups = NoGroups
    /\ container = [organized |-> FALSE, children |-> RowsOf(layoutSchema)]
    /\ StoreIdle

NextLayout == OrganizeFields

SpecLayout == InitLayout /\ [][NextLayout]_vars

\* ---------------------------------------------------------------------------
\* Schema store: any uploads and reads, over any folders on disk
\* ---------------------------------------------------------------------------
InitSchemas ==
    /\ ServerIdle
    /\ configFile = [r \in Roots |-> NoFile]
    /\ config_json_path = find_config_json(configFile, project_root)
    /\ FormIdle
    /\ PrepIdle
    /\ LayoutIdle
    /\ loaded = NothingLoaded
    /\ schemaDir \in [ConfigFolders -> {"missing", "unreadable", "D"}]
    /\ schemaReply = NoSchemaReply
    /\ uploaded = NoPair

Upload == \E c, r \in SchemaDocs, n \in {"Unknown", "n"} : LoadSchemas(c, r, n)

FaultyUpload == LoadSchemasFaulty

ReadSchemas == \E folder \in ConfigFolders : GetSchemas(folder)

NextSchemas == Upload \/ FaultyUpload \/ ReadSchemas

SpecSchemas == InitSchemas /\ [][NextSchemas]_vars

\* ---------------------------------------------------------------------------
\* Loads observed: the row schema has the select f, loaded at mount and by its
\* button; the component schema has the object o with a select f of the same
\* kind inside; a response carries one of two arrays, or the empty one, or the
\* load fails
\* ---------------------------------------------------------------------------
LoadSchema(props, autoload, required) ==
    [props |-> props, required |-> {}, deps |-> NoEntries,
     async |-> [f \in {<<"f">>} |->
                   [autoload |-> autoload, watch |-> {}, required |-> required]],
     buttons |-> {}]

\* a schema whose async select o.f is nested in the object o
NestedLoadSchema ==
    [props |-> {<<"o", "f">>, <<"c">>}, required |-> {}, deps |-> NoEntries,
     async |-> [f \in {<<"o", "f">>} |->
                   [autoload |-> TRUE, watch |-> {}, required |-> FALSE]],
     buttons |-> {}]

ObservedOutcomes == LoadOutcomes \cup {"other_options"}

InitLoads ==
    /\ ServerIdle
    /\ configFile = [r \in Roots |-> NoFile]
    /\ config_json_path = find_config_json(configFile, project_root)
    /\ \E rr \in BOOLEAN :
           schema = [e \in Editors |->
                        IF e = "component" THEN NestedLoadSchema
                        ELSE LoadSchema({<<"f">>}, TRUE, rr)]
    /\ editor = [e \in Editors |-> NoEditor]
    /\ editorOutput = [e \in Editors |-> NoOutput]
    /\ combinedOutput = NoOutput
    /\ prefill = NoPrefill
    /\ lastEvent = "none"
    /\ ControlsIdle
    /\ ExtrasIdle

RowLoadButtonClick == ManualLoad("row", <<"f">>)

RowAutoloadTimerFires == FireAutoloadTimer("row", <<"f">>)

LoadResolves == \E i \in 1..MaxInFlight, o \in ObservedOutcomes : FinishLoad(i, o, TRUE)

NextLoads ==
    \/ InitializeEditors
    \/ EditorBecomesReady
    \/ EditorSetup
    \/ Tick
    \/ RowAutoloadTimerFires
    \/ RowLoadButtonClick
    \/ LoadResolves

SpecLoads == InitLoads /\ [][NextLoads]_vars

\* ---------------------------------------------------------------------------
\* What a load sends: both schemas have the select f with a load button, the
\* row's f is also loaded at mount; x is a field of both editors, c of the
\* component editor only, and the user edits both
\* ---------------------------------------------------------------------------
InitSent ==
    /\ ServerIdle
    /\ configFile = [r \in Roots |-> NoFile]
    /\ config_json_path = find_config_json(configFile, project_root)
    /\ schema = [e \in Editors |->
                    IF e = "component"
                    THEN LoadSchema({<<"f">>, <<"x">>, <<"c">>}, FALSE, FALSE)
                    ELSE LoadSchema({<<"f">>, <<"x">>}, TRUE, FALSE)]
    /\ editor = [e \in Editors |-> NoEditor]
    /\ editorOutput = [e \in Editors |-> NoOutput]
    /\ combinedOutput = NoOutput
    /\ prefill = NoPrefill
    /\ lastEvent = "none"
    /\ ControlsIdle
    /\ ExtrasIdle

FieldEdit ==
    \E e \in Editors, p \in {<<"x">>, <<"c">>}, v \in 0..MaxWatchVal : ChangeEvent(e, p, v)

NextSent ==
    \/ InitializeEditors
    \/ EditorBecomesReady
    \/ EditorSetup
    \/ FieldEdit
    \/ Tick
    \/ AutoloadTimerFires
    \/ LoadButtonClick
    \/ LoadFinishes

SpecSent == InitSent /\ [][NextSent]_vars

\* ---------------------------------------------------------------------------
\* Name resolution: every action name up to MaxNameLen against every unit
\* ---------------------------------------------------------------------------
InitResolve ==
    /\ \E u \in Units :
           disk = [r \in Roots |-> IF r = project_root
                                   THEN [src |-> "ok", attrs |-> u]
                                   ELSE [src |-> "no_src", attrs |-> EmptyUnit]]
    /\ configFile = [r \in Roots |-> NoFile]
    /\ config_json_path = find_config_json(configFile, project_root)
    /\ sysPath = <<project_root>>
    /\ sysModules = NoModule
    /\ req = [s \in Slots |-> IdleRequest]
    /\ FormIdle
    /\ ExtrasIdle

\* one dispatch per behaviour: the request of the behaviour is any name
AcceptAction ==
    /\ req[1].pc = "idle"
    /\ \E a \in Names : Accept(1, TRUE, a, EmptyParams, NoPath, "none")

FinishAction ==
    \E o \in Outcomes, res \in Results : Finish(1, "ok", o, res)

NextResolve == AcceptAction \/ FinishAction

SpecResolve == InitResolve /\ [][NextResolve]_vars

\* ---------------------------------------------------------------------------
\* Claims about name resolution (SpecResolve)
\* ---------------------------------------------------------------------------
\* a request that got as far as looking the action up on the loaded unit
Resolved(s) ==
    /\ req[s].pc = "done"
    /\ req[s].loaded
    /\ req[s].hasAction
    /\ req[s].stage \in {"resolve", "invoke"}

\* the three attempted variants, written out
Literal(s) == req[s].action

SnakeForm(s) == camel_to_snake(req[s].action)

HyphenForm(s) == HyphenToUnderscore(req[s].action)

ExistingVariants(s) ==
    {n \in {Literal(s), SnakeForm(s), HyphenForm(s)} : hasattr(req[s].comp, n)}

EarliestExisting(s) ==
    IF hasattr(req[s].comp, Literal(s)) THEN Literal(s)
    ELSE IF hasattr(req[s].comp, SnakeForm(s)) THEN SnakeForm(s)
    ELSE HyphenForm(s)

\* C3 (as claimed): when more than one of the three variants exists on the
\* backend unit, the earliest in the order literal, snake_case, hyphen-to-underscore
\* is the one callable invoked in that request, and no other is invoked.
C3_EarliestExistingInvoked ==
    \A s \in Slots :
        (Resolved(s) /\ Cardinality(ExistingVariants(s)) > 1)
            => req[s].invoked = <<EarliestExisting(s)>>

CallableVariants(s) ==
    {n \in {Literal(s), SnakeForm(s), HyphenForm(s)} : callable(req[s].comp, n)}

EarliestCallable(s) ==
    IF callable(req[s].comp, Literal(s)) THEN Literal(s)
    ELSE IF callable(req[s].comp, SnakeForm(s)) THEN SnakeForm(s)
    ELSE HyphenForm(s)

\* C20 (as claimed): a variant that exists on the unit without being callable
\* is passed over: when any of the three variants is callable, the earliest
\* callable one is invoked and the answer is not Unknown action.
C20_NonCallablePassedOver ==
    \A s \in Slots :
        (Resolved(s) /\ CallableVariants(s) # {})
            => /\ req[s].invoked = <<EarliestCallable(s)>>
               /\ req[s].response.http # 400

\* camelCase: letters and digits only, lower case first, a capital somewhere,
\* never two capitals in a row
IsCamelCase(name) ==
    /\ Len(name) >= 2
    /\ IsLower(name[1])
    /\ \A i \in 1..Len(name) : IsLower(name[i]) \/ IsUpper(name[i]) \/ IsDigit(name[i])
    /\ \E i \in 1..Len(name) : IsUpper(name[i])
    /\ \A i \in 1..(Len(name) - 1) : ~(IsUpper(name[i]) /\ IsUpper(name[i + 1]))

\* snake_case of a camelCase name, letter by letter: a capital becomes "_" and
\* its lower-case letter
RECURSIVE SnakeCaseOf(_)
SnakeCaseOf(name) ==
    IF name = <<>> THEN <<>>
    ELSE (IF IsUpper(Head(name)) THEN <<"_", Lower(Head(name))>> ELSE <<Head(name)>>)
             \o SnakeCaseOf(Tail(name))

\* C4: a camelCase action whose literal name is absent from the unit and whose
\* snake_case form is a callable of the unit invokes the snake_case method, and
\* what that method returns is the response.
C4_CamelResolvesToSnake ==
    \A s \in Slots :
        (/\ Resolved(s)
         /\ IsCamelCase(req[s].action)
         /\ ~hasattr(req[s].comp, req[s].action)
         /\ callable(req[s].comp, SnakeCaseOf(req[s].action)))
            => /\ req[s].invoked = <<SnakeCaseOf(req[s].action)>>
               /\ (req[s].returned # "none"
                      => req[s].response = ResultResponse(req[s].returned))

\* "testConnection" against a unit with only test_connection: here aB and a_b
C4_Witness ==
    \E s \in Slots :
        /\ req[s].pc = "done"
        /\ req[s].action = <<"a", "B">>
        /\ req[s].comp = [EmptyUnit EXCEPT ![<<"a", "_", "b">>] = "method"]
        /\ req[s].invoked = <<<<"a", "_", "b">>>>
        /\ req[s].response = ResultResponse("doc")

\* C5: when none of the three variants exists on the unit, no callable is
\* invoked and the answer is the UnknownAction failure: status "error", the
\* action named, and exactly the three variants listed in the order literal,
\* snake_case form, hyphen-to-underscore form.
C5_UnknownActionListsVariants ==
    \A s \in Slots :
        (Resolved(s) /\ ExistingVariants(s) = {})
            => /\ req[s].invoked = <<>>
               /\ req[s].response.status = "error"
               /\ req[s].response.text = "Unknown action"
               /\ req[s].response.action = req[s].action
               /\ req[s].response.tried =
                      <<req[s].action, camel_to_snake(req[s].action),
                        HyphenToUnderscore(req[s].action)>>
               /\ ~req[s].response.traceback

\* "doesNotExist": a camelCase name none of whose variants the unit has
C5_Witness ==
    \E s \in Slots :
        /\ req[s].pc = "done"
        /\ req[s].action = <<"a", "B">>
        /\ req[s].comp = EmptyUnit
        /\ req[s].invoked = <<>>
        /\ req[s].response.http = 400
        /\ req[s].response.tried = << <<"a", "B">>, <<"a", "_", "b">>, <<"a", "B">> >>

\* ---------------------------------------------------------------------------
\* Sequences of dispatches, one at a time, with every fault the handler can meet
\* ---------------------------------------------------------------------------
SnakeUnit == [EmptyUnit EXCEPT ![<<"a", "_", "b">>] = "method"]

LiteralUnit == [EmptyUnit EXCEPT ![<<"a", "B">>] = "method"]

DispatchActions == { <<"a", "B">>, <<"a">> }

DispatchParams == [{<<"x">>} -> Vals \ {0}]

\* no componentPath; a component_config folder; a root holding one; a folder
\* without one; a path that names nothing on disk; a value that is no path
DispatchPaths ==
    { NoPath, <<"alt", "component_config">>, <<"alt">>, <<"plain">>, <<"gone">>,
      BadTypePath }

FullParams == [k \in FormPaths |-> 0]

InitDispatch ==
    /\ \E st \in SrcStates :
           disk = [r \in Roots |->
                      IF r = project_root
                      THEN [src |-> st, attrs |-> IF st = "ok" THEN SnakeUnit ELSE EmptyUnit]
                      ELSE IF r = <<"alt">>
                      THEN [src |-> "ok", attrs |-> LiteralUnit]
                      ELSE [src |-> "no_src", attrs |-> EmptyUnit]]
    /\ \E f \in {NoFile, OldFile(FullParams)} :
           /\ configFile = [r \in Roots |-> IF r = project_root THEN f ELSE NoFile]
           /\ config_json_path = find_config_json(configFile, project_root)
    /\ sysPath = <<project_root>>
    /\ sysModules = NoModule
    /\ req = [s \in Slots |-> IdleRequest]
    /\ FormIdle
    /\ ExtrasIdle

\* a well-formed request
AcceptRequest ==
    \E a \in DispatchActions, P \in DispatchParams, cp \in DispatchPaths :
        Accept(1, TRUE, a, P, cp, "none")

\* a request without an action
AcceptNoAction ==
    \E P \in DispatchParams : Accept(1, FALSE, <<>>, P, NoPath, "none")

\* a request whose body cannot be read, or whose config cannot be written
AcceptFaulty ==
    \E P \in DispatchParams, f \in {"body", "write"} :
        Accept(1, TRUE, <<"a", "B">>, P, NoPath, f)

FinishRequest ==
    \E c \in CtorOutcomes, o \in Outcomes : Finish(1, c, o, "doc")

NextDispatch == AcceptRequest \/ AcceptNoAction \/ AcceptFaulty \/ FinishRequest

SpecDispatch == InitDispatch /\ [][NextDispatch]_vars

\* ---------------------------------------------------------------------------
\* Two dispatches at a time: the server handles each request in a thread of
\* its own (app.run, threaded by default), the handler takes no lock
\* ---------------------------------------------------------------------------
RacePaths == { NoPath, <<"alt">> }

InitRace ==
    /\ disk = [r \in Roots |->
                  IF r = project_root THEN [src |-> "ok", attrs |-> SnakeUnit]
                  ELSE IF r = <<"alt">> THEN [src |-> "ok", attrs |-> LiteralUnit]
                  ELSE [src |-> "no_src", attrs |-> EmptyUnit]]
    /\ \E f \in {NoFile, OldFile(FullParams)} :
           /\ configFile = [r \in Roots |-> IF r = project_root THEN f ELSE NoFile]
           /\ config_json_path = find_config_json(configFile, project_root)
    /\ sysPath = <<project_root>>
    /\ sysModules = NoModule
    /\ req = [s \in Slots |-> IdleRequest]
    /\ FormIdle
    /\ ExtrasIdle

AcceptOn(s) ==
    \E P \in DispatchParams, cp \in RacePaths : Accept(s, TRUE, <<"a", "B">>, P, cp, "none")

AcceptConcurrent == \E s \in Slots : AcceptOn(s)

FinishConcurrent == \E s \in Slots, o \in Outcomes : Finish(s, "ok", o, "doc")

NextRace == AcceptConcurrent \/ FinishConcurrent

SpecRace == InitRace /\ [][NextRace]_vars

\* ---------------------------------------------------------------------------
\* Claims about concurrent dispatches (SpecRace)
\* ---------------------------------------------------------------------------
\* C22: nothing locks the persisted config: while one request stands between
\* its persist step and its call, another request is accepted and persists;
\* and the config a callable reads is the one written last to its root before
\* the call, by whichever request, so not always the one of its own request.
C22_LastWriterBeforeReadWins ==
    \A s \in Slots :
        /\ (req[s].pc = "persisted")
               => \A t \in Slots \ {s} : req[t].pc # "persisted" => ENABLED AcceptOn(t)
        /\ (req[s].pc = "done" /\ req[s].invoked # <<>>)
               => /\ req[s].configRead.keys = {"parameters"}
                  /\ req[s].configRead.parameters = req[s].lastWrite

\* a callable ran while the config of its root held the parameters of the
\* other request
C22_Witness ==
    \E s \in Slots : \E t \in Slots \ {s} :
        /\ req[s].pc = "done"
        /\ req[s].invoked # <<>>
        /\ req[t].pc = "persisted"
        /\ req[t].root = req[s].root
        /\ req[s].configRead.parameters # req[s].parameters
        /\ req[s].configRead.parameters = req[t].parameters

\* ---------------------------------------------------------------------------
\* Claims about persisting and fault handling (SpecDispatch)
\* ---------------------------------------------------------------------------
\* C6: once the persist step of a dispatch with parameters P is done, the
\* persisted config of the resolved root holds exactly {parameters: P},
\* whatever it held before: no key of the previous content remains.
C6_PersistOverwritesWholesale ==
    \A s \in Slots :
        req[s].pc = "persisted"
            => /\ configFile[req[s].root].exists
               /\ configFile[req[s].root].keys = {"parameters"}
               /\ configFile[req[s].root].parameters = req[s].parameters
               /\ configFile[req[s].root].storage = "none"

\* a file with other keys and other parameters has just been overwritten
C6_Witness ==
    \E s \in Slots :
        /\ req[s].pc = "persisted"
        /\ req[s].prior.exists
        /\ "storage" \in req[s].prior.keys
        /\ req[s].prior.parameters # req[s].parameters
        /\ configFile[req[s].root].keys = {"parameters"}
        /\ configFile[req[s].root].parameters = req[s].parameters

C21_PersistThenInvokeThenRespond ==
    \A s \in Slots :
        (req[s].pc = "done" /\ req[s].invoked # <<>>)
            => /\ req[s].loaded
               /\ req[s].stage = "invoke"
               /\ req[s].args = <<>>
               /\ req[s].configRead.exists
               /\ req[s].configRead.keys = {"parameters"}
               /\ req[s].configRead.parameters = req[s].parameters
               /\ (req[s].returned # "none")
                      = (req[s].response.http = 200)
               /\ req[s].returned # "none"
                      => /\ req[s].response.body = req[s].returned
                         /\ req[s].response.status = "none"
                         /\ req[s].response.text = "none"
                         /\ ~req[s].response.traceback

\* the callable of a request with parameters {x: 2} returned, the file before
\* the request held other parameters and a storage key
C21_Witness ==
    \E s \in Slots :
        /\ req[s].pc = "done"
        /\ req[s].invoked # <<>>
        /\ req[s].returned = "doc"
        /\ req[s].prior.exists
        /\ "storage" \in req[s].prior.keys
        /\ req[s].parameters = [k \in {<<"x">>} |-> 2]
        /\ req[s].configRead.parameters = req[s].parameters
        /\ req[s].response.body = "doc"

\* the persist step of the request has run and no other request has been
\* accepted since
Persisted(s) ==
    \/ req[s].pc = "persisted"
    \/ /\ req[s].pc = "done"
       /\ req[s].stage \in {"load", "import", "construct", "resolve", "invoke"}

\* C37 (as claimed): after a dispatch with parameters P against the default
\* root, GET /api/config without a path query returns P, whether or not the
\* config file existed when the server started.
C37_ConfigReadsBackDispatched ==
    \A s \in Slots :
        (Persisted(s) /\ req[s].root = project_root)
            => get_config(configFile, config_json_path) = req[s].parameters

\* C38: a dispatch answered with NotFound (no source directory, no entry
\* file), with an import failure or with UnknownAction has overwritten the
\* config of its resolved root with its parameters before, and the file still
\* holds them, not what it held before the request.
C38_FailedDispatchHasPersisted ==
    \A s \in Slots :
        (req[s].pc = "done" /\ req[s].stage \in {"load", "import", "resolve"})
            => /\ req[s].response.http \in {400, 404, 500}
               /\ configFile[req[s].root].exists
               /\ configFile[req[s].root].keys = {"parameters"}
               /\ configFile[req[s].root].parameters = req[s].parameters

\* a request for an action the unit does not have was answered UnknownAction;
\* the file that held other parameters and a storage key before now holds the
\* parameters of the request alone
C38_Witness ==
    \E s \in Slots :
        /\ req[s].pc = "done"
        /\ req[s].stage = "resolve"
        /\ req[s].hasAction
        /\ req[s].response = UnknownActionResponse(req[s].action, possible_names(req[s].action))
        /\ req[s].prior.exists
        /\ "storage" \in req[s].prior.keys
        /\ req[s].prior.parameters # req[s].parameters
        /\ configFile[req[s].root] = write_config(req[s].prior, req[s].parameters)

\* C18 (as claimed): the unit a dispatch loads is the one found under the root
\* resolved for that request, also when an earlier request loaded the unit of
\* another root.
C18_UnitOfResolvedRootLoaded ==
    \A s \in Slots :
        (req[s].pc = "done" /\ req[s].loaded)
            => req[s].comp = disk[req[s].root].attrs

\* the root the claim of C19 gives a componentPath
ClaimedRoot(component_path) ==
    IF component_path = NoPath THEN project_root
    ELSE IF isdir(component_path) /\ basename(component_path) = "component_config"
    THEN dirname(component_path)
    ELSE component_path

\* the root of the request has been resolved
RootResolved(s) ==
    \/ req[s].pc = "persisted"
    \/ req[s].pc = "done" /\ req[s].stage \notin {"body", "root"}

\* C19 (as claimed): with a componentPath, the root used for persisting and
\* loading is its parent when it is a directory named component_config, and
\* the componentPath itself otherwise; the default root is used only when the
\* request has no componentPath.
C19_RootFollowsComponentPath ==
    \A s \in Slots :
        RootResolved(s) => req[s].root = ClaimedRoot(req[s].componentPath)

\* ---------------------------------------------------------------------------
\* Claims about merging and pre-filling (SpecForm)
\* ---------------------------------------------------------------------------
BothReady == \A e \in Editors : editor[e].exists /\ editor[e].ready

componentValues == editor["component"].value

rowValues == editor["row"].value

\* C1: after a change event of either editor, both being ready, the combined
\* output carries the row value for every key of the row values, the component
\* value for every key only the component values have, and no other key.
C1_CombinedIsRowOverComponent ==
    (lastEvent = "change" /\ BothReady)
        => /\ combinedOutput.written
           /\ DOMAIN combinedOutput.value = DOMAIN componentValues \cup DOMAIN rowValues
           /\ \A p \in DOMAIN rowValues : combinedOutput.value[p] = rowValues[p]
           /\ \A p \in DOMAIN componentValues \ DOMAIN rowValues :
                  combinedOutput.value[p] = componentValues[p]

\* component {x:1} and row {x:2, y:1} give {x:2, y:1}
C1_Witness ==
    /\ lastEvent = "change"
    /\ BothReady
    /\ componentValues = [p \in {<<"x">>} |-> 1]
    /\ rowValues = [p \in {<<"x">>, <<"y">>} |-> IF p = <<"x">> THEN 2 ELSE 1]
    /\ combinedOutput.value = [p \in {<<"x">>, <<"y">>} |-> IF p = <<"x">> THEN 2 ELSE 1]

\* the persisted set has a key, and each of its keys is declared by a schema
AllPersistedKeysDeclared ==
    /\ DOMAIN prefill.config # {}
    /\ \A p \in DOMAIN prefill.config :
           TopKey(p) \in DeclaredKeys(schema["component"]) \cup DeclaredKeys(schema["row"])

PrefillApplied ==
    /\ lastEvent = "loadConfig"
    /\ prefill.state = "applied"
    /\ BothReady

\* C2 (as claimed): splitting a persisted set whose every key is declared by
\* one of the schemas and remerging the editors' values reproduces the
\* persisted set.
C2_RoundTripReproducesPersisted ==
    (PrefillApplied /\ AllPersistedKeysDeclared)
        => /\ combinedOutput.written
           /\ combinedOutput.value = prefill.config

\* C2 (amended): the remerged output carries every persisted key with its
\* persisted value, and it equals the persisted set when every key the two
\* schemas declare is persisted; otherwise it also carries what the editors
\* hold for declared keys that are not persisted.
C2_RoundTripKeepsPersistedKeys ==
    (PrefillApplied /\ AllPersistedKeysDeclared)
        => /\ combinedOutput.written
           /\ \A p \in DOMAIN prefill.config :
                  /\ p \in DOMAIN combinedOutput.value
                  /\ combinedOutput.value[p] = prefill.config[p]
           /\ (DeclaredKeys(schema["component"]) \cup DeclaredKeys(schema["row"])
                   \subseteq TopKeys(DOMAIN prefill.config))
                  => combinedOutput.value = prefill.config

\* {x:1, y:2} with x declared by the component schema and y by the row schema
C2_Witness ==
    /\ PrefillApplied
    /\ schema["component"].props = {<<"x">>}
    /\ schema["row"].props = {<<"y">>}
    /\ prefill.config = [p \in {<<"x">>, <<"y">>} |-> IF p = <<"x">> THEN 1 ELSE 2]
    /\ componentValues = [p \in {<<"x">>} |-> 1]
    /\ rowValues = [p \in {<<"y">>} |-> 2]
    /\ combinedOutput.value = prefill.config

\* C39 (as claimed): when the persisted config is not empty, the editors are
\* pre-filled from it in the end, in whatever order the schema response, the
\* 'ready' events of the editors and the config load complete.
C39_PrefillInEveryOrder ==
    (DOMAIN get_config(configFile, config_json_path) # {}) ~> (prefill.state = "applied")

\* ---------------------------------------------------------------------------
\* Claims about conditional visibility (SpecDeps)
\* ---------------------------------------------------------------------------
\* every {path: expectedValue} entry of field f matches the live value at that
\* path, top-level or nested
DependenciesMet(e, f) ==
    \A d \in DOMAIN schema[e].deps[f] :
        d \in DOMAIN editor[e].value /\ editor[e].value[d] = schema[e].deps[f][d]

\* C10 (as claimed): once the initial check of a field with dependencies has
\* run, the field is visible if and only if every entry of its dependencies map
\* equals the live value at its path, top-level or nested.
C10_VisibleIffDependenciesMet ==
    \A e \in Editors :
        \A f \in DOMAIN schema[e].deps :
            f \in depChecked[e] => ((f \notin hidden[e]) <=> DependenciesMet(e, f))

\* C34 (as claimed): the initial visibility of every field with dependencies
\* is evaluated after the form mounts and before any user interaction: when a
\* change made by the user is processed, the initial check of every dependent
\* field of that editor has run.
C34_InitialCheckBeforeInteraction ==
    [][\A e \in Editors :
          (lastEvent' = "change" /\ editor'[e].value # editor[e].value)
              => DOMAIN schema[e].deps \subseteq depChecked[e]]_vars

\* a hidden field is in the value of its editor, and in the outputs with that
\* value
HiddenValueShown ==
    \A e \in Editors :
        \A f \in hidden[e] :
            /\ f \in DOMAIN editor[e].value
            /\ editorOutput[e].written =>
                   /\ f \in DOMAIN editorOutput[e].value
                   /\ editorOutput[e].value[f] = editor[e].value[f]
            /\ combinedOutput.written =>
                   /\ f \in DOMAIN combinedOutput.value
                   /\ combinedOutput.value[f] = editor[e].value[f]

\* a step after which a field is hidden has left the value of the field as it
\* was
HiddenValueKept ==
    \A e \in Editors :
        \A f \in hidden'[e] :
            /\ f \in DOMAIN editor[e].value
            /\ f \in DOMAIN editor'[e].value
            /\ editor'[e].value[f] = editor[e].value[f]

\* C33: hiding a field through its dependencies neither clears nor changes
\* its value, at the step that hides it and for as long as it stays hidden,
\* and the value shows in the output of its editor and in the combined output.
C33_HidingKeepsValue == []HiddenValueShown /\ [][HiddenValueKept]_vars

\* the row's field f was given a value other than its default and then hidden
\* by a change of the field it depends on; both outputs show that value
C33_Witness ==
    /\ <<"f">> \in hidden["row"]
    /\ lastEvent = "change"
    /\ editor["row"].value[<<"f">>] = MaxVal
    /\ editorOutput["row"].written
    /\ editorOutput["row"].value[<<"f">>] = MaxVal
    /\ combinedOutput.written
    /\ combinedOutput.value[<<"f">>] = MaxVal

\* ---------------------------------------------------------------------------
\* Claims about the async selects (SpecAsync)
\* ---------------------------------------------------------------------------
LoadPending(e, f) == \E i \in 1..Len(loads) : loads[i].editor = e /\ loads[i].field = f

\* C8 (as claimed): the changes of a watched field, each arriving before the
\* debounce delay of the previous one has passed, start exactly one reload of
\* the dependent select: the reload starts one delay after the last change
\* (so a change is never left waiting longer than the delay, and a watch
\* reload never starts at another moment), and it sends the form state read
\* when the timer fires.
C8_DebouncedReloadAfterLastChange ==
    /\ \A e \in Editors :
           /\ burst[e].open => burst[e].elapsed <= DebounceDelay
           /\ burst[e].exact
    /\ lastEvent = "watch" =>
           LET l == loads[Len(loads)]
           IN  \A p \in DOMAIN editor[l.editor].value :
                   p \in DOMAIN l.sent /\ l.sent[p] = editor[l.editor].value[p]

\* C9: once no load of an async field is pending, whatever the loads came
\* back with, the select of the field is enabled.
C9_EnabledOnceLoadsFinished ==
    \A e \in Editors :
        \A f \in DOMAIN schema[e].async :
            ~LoadPending(e, f) => f \notin disabled[e]

\* a load has just failed, after which no load is pending and every select is
\* enabled
C9_Witness ==
    /\ lastEvent = "load_failed"
    /\ loads = <<>>
    /\ \A e \in Editors : disabled[e] = {}

\* C24 (as claimed): while a load of an async field is pending, its select is
\* disabled, also when manual, autoload and watch loads overlap.
C24_DisabledWhileLoadPending ==
    \A e \in Editors :
        \A f \in DOMAIN schema[e].async :
            LoadPending(e, f) => f \in disabled[e]

\* C25 (as claimed): a pending debounce timer is taken away only by its own
\* firing, which starts the load of its own editor and field, or replaced by
\* a new timer of the same editor and field after a change of its own watched
\* field: no step hands its key to another editor or field.
C25_TimersIndependent ==
    [][\A k \in DOMAIN watchDebounceTimers :
          LET t == watchDebounceTimers[k]
          IN  \/ /\ k \in DOMAIN watchDebounceTimers'
                 /\ watchDebounceTimers'[k].owner = t.owner
                 /\ watchDebounceTimers'[k].field = t.field
              \/ /\ k \notin DOMAIN watchDebounceTimers'
                 /\ Len(loads') = Len(loads) + 1
                 /\ loads'[Len(loads')].editor = t.owner
                 /\ loads'[Len(loads')].field = t.field]_vars

\* C27 (as claimed): an async field gets an autoload timer at mount exactly
\* when its autoload is true or a non-empty sequence of paths; a load started
\* by a timer is one of such a field, a watch reload one of a field that names
\* paths; and while a change of a named field of an editor waits for its
\* reload, a debounce timer of that editor is pending.
C27_AutomaticLoadsFollowAutoload ==
    /\ \A e \in Editors :
           /\ \A f \in DOMAIN autoloadTimers[e] : Autoloads(schema[e].async[f])
           /\ burst[e].open =>
                  \E k \in DOMAIN watchDebounceTimers :
                      /\ watchDebounceTimers[k].owner = e
                      /\ schema[e].async[watchDebounceTimers[k].field].watch # {}
    /\ lastEvent \in {"autoload", "watch"} =>
           LET l == loads[Len(loads)]
           IN  /\ Autoloads(schema[l.editor].async[l.field])
               /\ lastEvent = "watch" => schema[l.editor].async[l.field].watch # {}

\* ---------------------------------------------------------------------------
\* Claims about observed loads (SpecLoads)
\* ---------------------------------------------------------------------------
\* the select of a field holding exactly the values of an array, after one
\* empty option when the field is not required
HoldsExactly(e, f, values) ==
    /\ f \in DOMAIN options[e]
    /\ options[e][f] = (IF schema[e].async[f].required THEN <<>> ELSE <<"">>) \o values

\* C23 (as claimed): loads of one field that overlapped are each applied when
\* they resolve: once the last of them has resolved with an array, the select
\* holds the options of that last response, also when its load started first.
C23_LastResolvedResponseWins ==
    (/\ lastEvent = "load_done"
     /\ resolved.seen # "alone"
     /\ ~LoadPending(resolved.editor, resolved.field))
        => HoldsExactly(resolved.editor, resolved.field, ReturnedArray(resolved.outcome))

\* C24 (amended): a load disables the select of its field when it starts, and
\* every load enables it again when it resolves, whatever it came back with and
\* whether or not another load of the field is still pending; a select is
\* never disabled without a load of its field pending.
C24_DisabledFromStartToFirstResolve ==
    /\ lastEvent \in {"manual", "autoload"} =>
           loads[Len(loads)].field \in disabled[loads[Len(loads)].editor]
    /\ lastEvent \in {"load_done", "load_failed"} =>
           resolved.field \notin disabled[resolved.editor]
    /\ \A e \in Editors :
           \A f \in disabled[e] : LoadPending(e, f)

\* of two overlapping loads one has resolved: the select is enabled while the
\* other load is pending
C24_Witness ==
    /\ lastEvent = "load_done"
    /\ resolved.seen = "overlapped"
    /\ LoadPending(resolved.editor, resolved.field)
    /\ resolved.field \notin disabled[resolved.editor]

\* C28 (as claimed): once an editor is set up, every async select of its
\* schema, top-level or nested in an object, has exactly one load button, and
\* a click on it starts a load.
C28_EveryAsyncSelectHasOneLoadButton ==
    \A e \in Editors :
        editor[e].setup =>
            \A f \in DOMAIN schema[e].async :
                /\ f \in DOMAIN loadControls[e]
                /\ loadControls[e][f] = 1
                /\ Len(loads) < MaxInFlight => ENABLED ManualLoad(e, f)

\* C26 (as claimed): when a load has just succeeded, whatever array it
\* returned, the empty one included, the select holds exactly the returned
\* values in order, after one empty option if and only if the field is not
\* required, and none of the options it held before.
C26_OptionsReplacedByReturned ==
    lastEvent = "load_done"
        => HoldsExactly(resolved.editor, resolved.field, ReturnedArray(resolved.outcome))

\* ---------------------------------------------------------------------------
\* Claims about what a load sends (SpecSent)
\* ---------------------------------------------------------------------------
\* the values the component editor has to give: none before it is ready
ComponentState ==
    IF editor["component"].exists /\ editor["component"].ready
    THEN editor["component"].value ELSE EmptyParams

\* C29: a load that has just started carries the whole form state of its own
\* editor as read at that moment, and what leaves for the dispatcher is the
\* component editor's values overridden key by key by that state: a load of a
\* component field sends exactly the component state, a load of a row field
\* the component values plus the row values, the row value winning.
C29_LoadSendsComponentOverriddenByOwn ==
    lastEvent \in {"manual", "autoload"} =>
        LET l   == loads[Len(loads)]
            own == editor[l.editor].value
        IN  /\ DOMAIN l.sent = DOMAIN ComponentState \cup DOMAIN own
            /\ \A p \in DOMAIN own : l.sent[p] = own[p]
            /\ \A p \in DOMAIN ComponentState \ DOMAIN own : l.sent[p] = ComponentState[p]
            /\ l.editor = "component" => l.sent = editor["component"].value

\* a load of the row's select leaves with x of the row (1, the component has
\* 0) and c of the component (1)
C29_Witness ==
    /\ lastEvent = "manual"
    /\ loads[Len(loads)].editor = "row"
    /\ editor["component"].value = (<<"f">> :> 0 @@ <<"x">> :> 0 @@ <<"c">> :> 1)
    /\ editor["row"].value = (<<"f">> :> 0 @@ <<"x">> :> 1)
    /\ loads[Len(loads)].sent = (<<"f">> :> 0 @@ <<"x">> :> 1 @@ <<"c">> :> 1)

\* ---------------------------------------------------------------------------
\* Claims about the pre-fill split (SpecForm)
\* ---------------------------------------------------------------------------
\* what splitAndFillConfig computed for editor e
GivenParams(e) == IF e = "component" THEN prefill.componentParams ELSE prefill.rowParams

\* C11: once splitAndFillConfig has split a persisted parameter set, an editor
\* is given a persisted key, with its persisted value, exactly when its schema
\* declares the key: a key both schemas declare goes to both editors with the
\* same value, a key neither declares goes to no editor, and nothing that a
\* schema does not declare is given to its editor. When both setValue calls
\* went through, the editors hold the values they were given.
C11_SplitFollowsDeclaredKeys ==
    /\ prefill.state \in {"applied", "failed"} =>
           \A e \in Editors :
               /\ \A p \in DOMAIN prefill.config :
                      p \in DOMAIN GivenParams(e) <=> TopKey(p) \in DeclaredKeys(schema[e])
               /\ \A p \in DOMAIN GivenParams(e) :
                      /\ p \in DOMAIN prefill.config
                      /\ GivenParams(e)[p] = prefill.config[p]
    /\ (prefill.state = "applied" /\ lastEvent = "loadConfig") =>
           \A e \in Editors :
               /\ \A p \in DOMAIN GivenParams(e) :
                      p \in DOMAIN editor[e].value /\ editor[e].value[p] = prefill.config[p]
               /\ \A p \in DOMAIN editor[e].value : TopKey(p) \in DeclaredKeys(schema[e])

\* the split has just given a persisted key to both editors and another key to
\* the row editor only
C11_Witness ==
    /\ prefill.state = "applied"
    /\ lastEvent = "loadConfig"
    /\ \E p \in DOMAIN prefill.config :
           p \in DOMAIN prefill.componentParams /\ p \in DOMAIN prefill.rowParams
    /\ \E p \in DOMAIN prefill.config :
           p \notin DOMAIN prefill.componentParams /\ p \in DOMAIN prefill.rowParams

\* ---------------------------------------------------------------------------
\* Claims about the action buttons (SpecButtons)
\* ---------------------------------------------------------------------------
\* the component values overlaid by the row values, key by key
RowOverComponent(sent) ==
    /\ \A p \in DOMAIN editor["row"].value :
           p \in DOMAIN sent /\ sent[p] = editor["row"].value[p]
    /\ \A p \in DOMAIN editor["component"].value :
           TopKey(p) \notin TopKeys(DOMAIN editor["row"].value) =>
               p \in DOMAIN sent /\ sent[p] = editor["component"].value[p]
    /\ \A p \in DOMAIN sent :
           \/ p \in DOMAIN editor["row"].value
           \/ /\ p \in DOMAIN editor["component"].value
              /\ TopKey(p) \notin TopKeys(DOMAIN editor["row"].value)

\* C12: the parameters an activated button has just sent are the component
\* editor's values overlaid by the row editor's values when the button is the
\* row editor's, and exactly the component editor's values when it is the
\* component editor's.
C12_ButtonSendsItsEditorsValues ==
    lastEvent = "activate" =>
        LET c == actionCalls[Len(actionCalls)]
        IN  IF c.editor = "row" THEN RowOverComponent(c.sent)
            ELSE c.sent = editor["component"].value

\* the component editor's button has just sent its values while the row editor
\* holds other values: another value of the shared key and a key of its own
C12_Witness ==
    /\ lastEvent = "activate"
    /\ actionCalls[Len(actionCalls)].editor = "component"
    /\ editor["row"].ready
    /\ editor["row"].value[<<"x">>] # editor["component"].value[<<"x">>]
    /\ editor["row"].value[<<"y">>] # 0

ActionPending(e, f) ==
    \E i \in DOMAIN actionCalls : actionCalls[i].editor = e /\ actionCalls[i].field = f

\* C13 (as claimed): once the dispatch of an activated button has come back,
\* with a result, with a response that is not a success or with a transport
\* failure, the button is enabled, at full opacity and shows its idle label.
C13_ButtonIdleAfterEveryOutcome ==
    \A e \in Editors :
        \A f \in DOMAIN button[e] :
            ~ActionPending(e, f) =>
                /\ ~button[e][f].disabled
                /\ button[e][f].opacity = "1"
                /\ button[e][f].label = "idle"

\* C35 (as claimed): an action button reports the dispatch result verbatim
\* and classifies it by its status field: a result whose status is absent or
\* "success" is reported whole as a success, a result with any other status
\* whole as a failure, and a response that is not a success or a transport
\* failure as an error.
C35_ResultReportedByStatus ==
    /\ report.of \in {"success", "no_status"} =>
           report.kind = "success" /\ report.text = "result"
    /\ report.of \in {"falsy_status", "error_status", "error_with_message"} =>
           report.kind = "failure" /\ report.text = "result"
    /\ report.of \in {"http_error", "transport_failure"} => report.kind = "error"

\* ---------------------------------------------------------------------------
\* Claims about schema preprocessing (SpecPreprocess)
\* ---------------------------------------------------------------------------
\* the format with each hyphen removed and the letter after it capitalized
RECURSIVE HyphensToCapitals(_, _)
HyphensToCapitals(s, i) ==
    IF i > Len(s) THEN <<>>
    ELSE IF s[i] = "-"
         THEN IF i + 1 <= Len(s) /\ s[i + 1] # "-"
              THEN <<ToUpperCase(s[i + 1])>> \o HyphensToCapitals(s, i + 2)
              ELSE HyphensToCapitals(s, i + 1)
         ELSE <<s[i]>> \o HyphensToCapitals(s, i + 1)

\* C14 (as claimed): a preprocessed field of type button is a hidden string
\* field marked as a button, whose action is options.async.action when there
\* is one (with options.async.label as label when given), otherwise the format
\* with each hyphen removed and the next letter capitalized, otherwise
\* "unknown"; without async descriptor, the format test-connection gives the
\* action testConnection and the label "Test Connection".
C14_ButtonNormalized ==
    (processed # NotProcessed /\ field.type = "button") =>
        /\ processed.type = "string"
        /\ processed.hidden
        /\ processed.isButton
        /\ processed.action =
               IF field.asyncAction # <<>> THEN field.asyncAction
               ELSE IF field.format # <<>> THEN HyphensToCapitals(field.format, 1)
               ELSE Unknown
        /\ (field.asyncAction # <<>> /\ field.asyncLabel # "") =>
               processed.label = field.asyncLabel
        /\ (field.asyncAction = <<>> /\ field.format = TestConnectionFormat) =>
               /\ processed.action = TestConnectionAction
               /\ processed.label = "Test Connection"

\* C30 (as claimed): the normalizer treats a field alike at every nesting
\* depth: a button becomes the hidden string field marked as a button with the
\* action and label of a top-level button (format test-connection without
\* async descriptor giving the label "Test Connection"), an async select is
\* flagged as async and a select-formatted array as holding unique items.
C30_SameAtEveryDepth ==
    processed # NotProcessed =>
        /\ field.type = "button" =>
               /\ processed.type = "string"
               /\ processed.hidden
               /\ processed.isButton
               /\ processed.action =
                      IF field.asyncAction # <<>> THEN field.asyncAction
                      ELSE IF field.format # <<>> THEN FormatToAction(field.format, 1)
                      ELSE Unknown
               /\ (field.asyncAction = <<>> /\ field.format = TestConnectionFormat) =>
                      processed.label = "Test Connection"
        /\ (field.type # "button" /\ field.format = SelectFormat /\ field.asyncAction # <<>>)
               => processed.hasAsync
        /\ (field.type = "array" /\ field.format = SelectFormat) => processed.uniqueItems

\* two documents with the same JSON text: a key whose value is undefined is
\* not written
SameDocument(a, b) == JsonClone(a) = JsonClone(b)

\* the properties preprocessSchema is said to alter
Normalizable(prop) ==
    \/ prop.type = "button"
    \/ prop.format = SelectFormat /\ prop.asyncAction # <<>>
    \/ prop.type = "array" /\ prop.format = SelectFormat

\* C31: preprocessSchema leaves the document it is given as it was (the
\* original keeps its button type and its async descriptor), returns a
\* property that is neither a button, an async select nor a select-formatted
\* array as it was given, and returns for an already normalized document a
\* document with the same JSON text.
C31_PureAndIdempotent ==
    /\ documents.passes # <<>> =>
           /\ documents.original = RawDocument(field)
           /\ ~Normalizable(field) => documents.passes[1] = RawDocument(field)
    /\ Len(documents.passes) >= 2 =>
           /\ documents.passes[1] = normalizeProperty(RawDocument(field))
           /\ \A i \in 2..Len(documents.passes) :
                  SameDocument(documents.passes[i], documents.passes[i - 1])

\* a button without format and with an async descriptor has been normalized
\* twice: the original is still the button, the first result carries
\* options._format with the value undefined
C31_Witness ==
    /\ Len(documents.passes) = 2
    /\ field.type = "button"
    /\ field.depth = "top"
    /\ field.format = <<>>
    /\ field.asyncAction # <<>>
    /\ documents.original.type = "button"
    /\ documents.original.asyncAction = field.asyncAction
    /\ documents.passes[1].type = "string"
    /\ documents.passes[1].storedFormatKey = "undefined"
    /\ documents.passes[2].isButton

\* ---------------------------------------------------------------------------
\* Claims about the field groups (SpecLayout)
\* ---------------------------------------------------------------------------
\* the group of a property by its propertyOrder alone
GroupByOrder(prop) ==
    IF prop.order = <<>> THEN "Configuration"
    ELSE IF prop.order[1] \in 1..4 THEN "Connection"
    ELSE IF prop.order[1] \in 5..7 THEN "Data Selection"
    ELSE IF prop.order[1] >= 8 THEN "Destination"
    ELSE "Configuration"

\* every property is listed once, in the group expected(i), and every group
\* lists its keys in property order
GroupsAre(expected(_)) ==
    /\ \A i \in DOMAIN layoutSchema :
           /\ expected(i) \in DOMAIN groups
           /\ \E n \in DOMAIN groups[expected(i)] : groups[expected(i)][n] = i
    /\ \A g \in DOMAIN groups :
           /\ groups[g] # <<>>
           /\ \A n \in DOMAIN groups[g] :
                  /\ groups[g][n] \in DOMAIN layoutSchema
                  /\ expected(groups[g][n]) = g
           /\ \A m, n \in DOMAIN groups[g] : m < n => groups[g][m] < groups[g][n]

GroupByOptionsTag(i) ==
    IF layoutSchema[i].optionsTag # "" THEN layoutSchema[i].optionsTag
    ELSE GroupByOrder(layoutSchema[i])

GroupByOwnTag(i) ==
    IF layoutSchema[i].tag # "" THEN layoutSchema[i].tag
    ELSE GroupByOrder(layoutSchema[i])

C16_NoOpForOneGroup ==
    (container.organized /\ Cardinality(DOMAIN groups) <= 1) =>
        container.children = RowsOf(layoutSchema)

\* a schema of two properties of one group went through
\* organizeFieldsIntoSections
C16_Witness ==
    /\ container.organized
    /\ Len(layoutSchema) = MaxProps
    /\ Cardinality(DOMAIN groups) = 1
    /\ container.children = RowsOf(layoutSchema)

\* the children of the container that hold the row of property i
HoldersOf(i) ==
    {c \in DOMAIN container.children :
        \E n \in DOMAIN container.children[c].rows : container.children[c].rows[n] = i}

\* C32 (as claimed): when the properties classify into two or more groups,
\* whatever the groups are called, every top-level field rendered before
\* organizeFieldsIntoSections is rendered after it, in exactly one section.
C32_NoFieldLost ==
    (container.organized /\ Cardinality(DOMAIN groups) >= 2) =>
        \A i \in DOMAIN layoutSchema :
            /\ Cardinality(HoldersOf(i)) = 1
            /\ \A c \in HoldersOf(i) : container.children[c].section # ""

\* ---------------------------------------------------------------------------
\* Claims about the schema store (SpecSchemas)
\* ---------------------------------------------------------------------------
\* C17 (as claimed): once a complete pair has been uploaded, every GET
\* /api/schemas, with or without a path query and whatever is on disk, returns
\* the complete pair that was uploaded last.
C17_UploadedPairIsReturned ==
    (schemaReply.of = "get" /\ uploaded # NoPair) =>
        /\ schemaReply.http = "ok"
        /\ schemaReply.component = uploaded.component
        /\ schemaReply.row = uploaded.row

\* C36 (as claimed): a POST /api/load-schemas answered 400 because
\* componentSchema or rowSchema is missing leaves the uploaded schema state as
\* it was, and GET /api/schemas answers after it as it would have before it:
\* with the complete pair of an earlier upload when there is one.
C36_RejectedUploadChangesNothing ==
    [][(schemaReply'.of = "upload" /\ schemaReply'.http = "bad_request") =>
           /\ loaded' = loaded
           /\ \A d \in {"missing", "unreadable", "D"} :
                  get_schemas(loaded', d) = get_schemas(loaded, d)]_vars

====
